---- MODULE Spec2Model ----
(***************************************************************************)
(* Message normalization and dispatch pipeline of xia_adapter: the unified *)
(* message model, the format converter, the stream assembly of the two     *)
(* agent clients (Dify, Coze) and the pipeline orchestrator.               *)
(*                                                                         *)
(* A Go string is modelled as the sequence of its bytes.  A printable      *)
(* ASCII byte is the one-character string of that byte, any other byte is  *)
(* the string "xHH" of its hexadecimal value.  A Go map[string]string is a *)
(* record [isNil, kv]: isNil distinguishes the nil map, kv is the function *)
(* from the keys present to their values.                                  *)
(***************************************************************************)
EXTENDS Integers, Sequences, FiniteSets, TLC

(***************************************************************************)
(* String literals of the source, and the strings used as inputs.          *)
(***************************************************************************)
ErrPrefix ==
  <<"xE5","xA4","x84","xE7","x90","x86","xE6","xB6","x88","xE6","x81","xAF","xE6","x97","xB6",
    "xE5","x87","xBA","xE9","x94","x99",":"," ">>

FallbackText ==
  <<"xE6","x8A","xB1","xE6","xAD","x89","xEF","xBC","x8C","xE6","x88","x91","xE6","xB2","xA1",
    "xE6","x9C","x89","xE7","x90","x86","xE8","xA7","xA3","xE6","x82","xA8","xE7","x9A","x84",
    "xE9","x97","xAE","xE9","xA2","x98","xE3","x80","x82">>

ErrSendRequest ==
  <<"f","a","i","l","e","d"," ","t","o"," ","s","e","n","d"," ","r","e","q","u","e","s","t",":",
    " ">>

ErrReadResponse ==
  <<"f","a","i","l","e","d"," ","t","o"," ","r","e","a","d"," ","r","e","s","p","o","n","s","e",
    ":"," ">>

ErrDifyAPI ==
  <<"D","i","f","y"," ","A","P","I"," ","e","r","r","o","r",":"," ">>

ErrCozeAPI ==
  <<"C","o","z","e"," ","A","P","I"," ","e","r","r","o","r",":"," ">>

ErrCozeAuth ==
  <<"C","o","z","e"," ","A","P","I"," ","a","u","t","h","e","n","t","i","c","a","t","i","o","n",
    " ","f","a","i","l","e","d",","," ","p","l","e","a","s","e"," ","c","h","e","c","k"," ","A",
    "P","I"," ","k","e","y">>

CommaSpace ==
  <<","," ">>

DataImagePrefix ==
  <<"d","a","t","a",":","i","m","a","g","e","/">>

DataPngPrefix ==
  <<"d","a","t","a",":","i","m","a","g","e","/","p","n","g",";","b","a","s","e","6","4",",">>

HttpPrefix ==
  <<"h","t","t","p">>

UuidLower ==
  <<"5","5","0","e","8","4","0","0","-","e","2","9","b","-","4","1","d","4","-","a","7","1","6",
    "-","4","4","6","6","5","5","4","4","0","0","0","0">>

UuidUpper ==
  <<"5","5","0","E","8","4","0","0","-","E","2","9","B","-","4","1","D","4","-","A","7","1","6",
    "-","4","4","6","6","5","5","4","4","A","A","A","A">>

UuidOther ==
  <<"0","a","1","b","2","c","3","d","-","0","0","0","0","-","4","0","0","0","-","8","0","0","0",
    "-","0","0","0","0","0","0","0","0","b","e","e","f">>

NotAUuid ==
  <<"n","o","t","-","a","-","u","u","i","d">>

UuidBadChar ==
  <<"5","5","0","e","8","4","0","0","-","e","2","9","b","-","4","1","d","4","-","a","7","1","6",
    "-","4","4","6","6","5","5","4","4","0","0","0","g">>

UuidTooLong ==
  <<"5","5","0","e","8","4","0","0","-","e","2","9","b","-","4","1","d","4","-","a","7","1","6",
    "-","4","4","6","6","5","5","4","4","0","0","0","0","0">>

UuidBadDash ==
  <<"5","5","0","e","8","4","0","0","e","-","2","9","b","-","4","1","d","4","-","a","7","1","6",
    "-","4","4","6","6","5","5","4","4","0","0","0","0">>

ChatHandle ==
  <<"o","c","_","1">>

UserHandle ==
  <<"o","u","_","7">>

CauseTimeout ==
  <<"t","i","m","e","o","u","t">>

CauseEOF ==
  <<"u","n","e","x","p","e","c","t","e","d"," ","E","O","F">>

BodyBusy ==
  <<"b","u","s","y">>

TextHello ==
  <<" "," ","h","e","l","l","o","\r","\n","w","o","r","l","d"," "," ">>

TextHi ==
  <<"h","i">>

TextOk ==
  <<"o","k">>

DataUriSmall ==
  <<"d","a","t","a",":","i","m","a","g","e","/","p","n","g",";","b","a","s","e","6","4",",","A",
    "A","A","A">>

HttpUrl ==
  <<"h","t","t","p","s",":","/","/","x","/","a",".","p","n","g">>

(***************************************************************************)
(* strings package                                                         *)
(***************************************************************************)
HasPrefix(s, p) == Len(s) >= Len(p) /\ SubSeq(s, 1, Len(p)) = p

\* n bytes c
Repeat(c, n) == [i \in 1..n |-> c]

LowerOf ==
  [A |-> "a", B |-> "b", C |-> "c", D |-> "d", E |-> "e", F |-> "f", G |-> "g",
   H |-> "h", I |-> "i", J |-> "j", K |-> "k", L |-> "l", M |-> "m", N |-> "n",
   O |-> "o", P |-> "p", Q |-> "q", R |-> "r", S |-> "s", T |-> "t", U |-> "u",
   V |-> "v", W |-> "w", X |-> "x", Y |-> "y", Z |-> "z"]

ToLower(s) == [i \in 1..Len(s) |-> IF s[i] \in DOMAIN LowerOf THEN LowerOf[s[i]] ELSE s[i]]

RECURSIVE Join(_, _)
Join(elems, sep) ==
  IF Len(elems) = 0 THEN <<>>
  ELSE IF Len(elems) = 1 THEN elems[1]
  ELSE elems[1] \o sep \o Join(Tail(elems), sep)

\* the runes unicode.IsSpace accepts, in UTF-8: those of one byte (0x0B is
\* the vertical tab)
WhiteSpace == {" ", "\t", "\n", "\r", "\f", "x0B"}

\* and those of several bytes: U+0085, U+00A0, U+1680, U+2000..U+200A, U+2028,
\* U+2029, U+202F, U+205F, U+3000
WideSpaces ==
  {<<"xC2", "x85">>, <<"xC2", "xA0">>, <<"xE1", "x9A", "x80">>, <<"xE2", "x81", "x9F">>,
   <<"xE3", "x80", "x80">>}
    \cup {<<"xE2", "x80", b>> :
            b \in {"x80", "x81", "x82", "x83", "x84", "x85", "x86", "x87", "x88", "x89",
                   "x8A", "xA8", "xA9", "xAF"}}

HasSuffix(s, p) == Len(s) >= Len(p) /\ SubSeq(s, Len(s) - Len(p) + 1, Len(s)) = p

\* the number of bytes of the space rune s begins with, 0 when it begins with none
LeadingSpace(s) ==
  IF Len(s) > 0 /\ s[1] \in WhiteSpace THEN 1
  ELSE IF \E w \in WideSpaces : HasPrefix(s, w)
       THEN Len(CHOOSE w \in WideSpaces : HasPrefix(s, w))
       ELSE 0

\* the number of bytes of the space rune s ends with, 0 when it ends with none
TrailingSpace(s) ==
  IF Len(s) > 0 /\ s[Len(s)] \in WhiteSpace THEN 1
  ELSE IF \E w \in WideSpaces : HasSuffix(s, w)
       THEN Len(CHOOSE w \in WideSpaces : HasSuffix(s, w))
       ELSE 0

RECURSIVE TrimLeft(_)
TrimLeft(s) ==
  IF LeadingSpace(s) > 0 THEN TrimLeft(SubSeq(s, LeadingSpace(s) + 1, Len(s))) ELSE s

RECURSIVE TrimRight(_)
TrimRight(s) ==
  IF TrailingSpace(s) > 0 THEN TrimRight(SubSeq(s, 1, Len(s) - TrailingSpace(s))) ELSE s

TrimSpace(s) == TrimRight(TrimLeft(s))

\* strings.ReplaceAll(s, "\r\n", "\n")
RECURSIVE ReplaceCRLF(_)
ReplaceCRLF(s) ==
  IF Len(s) = 0 THEN <<>>
  ELSE IF Len(s) >= 2 /\ s[1] = "\r" /\ s[2] = "\n"
       THEN <<"\n">> \o ReplaceCRLF(SubSeq(s, 3, Len(s)))
       ELSE <<s[1]>> \o ReplaceCRLF(Tail(s))

\* strings.ReplaceAll(s, "\r", "\n")
ReplaceCR(s) == [i \in 1..Len(s) |-> IF s[i] = "\r" THEN "\n" ELSE s[i]]

\* fmt's %d of a non-negative integer
Digits == <<"0", "1", "2", "3", "4", "5", "6", "7", "8", "9">>

RECURSIVE Itoa(_)
Itoa(n) == IF n < 10 THEN <<Digits[n + 1]>> ELSE Itoa(n \div 10) \o <<Digits[(n % 10) + 1]>>

(***************************************************************************)
(* map[string]string                                                       *)
(***************************************************************************)
\* the function of a map without keys
NoKeys == [k \in {} |-> <<>>]

NilMap == [isNil |-> TRUE, kv |-> NoKeys]

EmptyMap == [isNil |-> FALSE, kv |-> NoKeys]

MapHas(m, k) == k \in DOMAIN m.kv

\* m[k]: the zero value "" for a missing key
MapGet(m, k) == IF k \in DOMAIN m.kv THEN m.kv[k] ELSE <<>>

\* m[k] = v on a map that is not nil
MapSet(m, k, v) ==
  [isNil |-> FALSE, kv |-> [x \in (DOMAIN m.kv) \cup {k} |-> IF x = k THEN v ELSE m.kv[x]]]

\* delete(m, k): a no-op on a nil map and on a missing key
MapDelete(m, k) == [isNil |-> m.isNil, kv |-> [x \in (DOMAIN m.kv) \ {k} |-> m.kv[x]]]

MapOf(kv) == [isNil |-> FALSE, kv |-> kv]

(***************************************************************************)
(* isUUID and the regular expression it compiles                           *)
(***************************************************************************)
HexLower ==
  {"0", "1", "2", "3", "4", "5", "6", "7", "8", "9", "a", "b", "c", "d", "e", "f"}

\* the repetition counts of ^[0-9a-f]{8}-[0-9a-f]{4}-[0-9a-f]{4}-[0-9a-f]{4}-[0-9a-f]{12}$
UuidGroups == <<8, 4, 4, 4, 12>>

RECURSIVE MatchGroups(_, _)
MatchGroups(s, groups) ==
  LET g == groups[1] IN
  /\ Len(s) >= g
  /\ \A i \in 1..g : s[i] \in HexLower
  /\ IF Len(groups) = 1
     THEN Len(s) = g
     ELSE /\ Len(s) > g
          /\ s[g + 1] = "-"
          /\ MatchGroups(SubSeq(s, g + 2, Len(s)), Tail(groups))

uuidRegexMatch(s) == MatchGroups(s, UuidGroups)

\* a mutant: the string is matched as it is, not in lower case
isUUIDCaseSensitive(s) == uuidRegexMatch(s)

isUUID(s) == uuidRegexMatch(ToLower(s))

(***************************************************************************)
(* Message, AgentRequest, AgentResponse                                    *)
(***************************************************************************)
PlatformLark == "lark"

PlatformWeCom == "wecom"

Message(platform, sessionID, userID, content, messageType, metadata) ==
  [Platform |-> platform, SessionID |-> sessionID, UserID |-> userID, Content |-> content,
   MessageType |-> messageType, Metadata |-> metadata]

AgentResponse(content, imageURLs, metadata) ==
  [isNil |-> FALSE, Content |-> content, ImageURLs |-> imageURLs, Metadata |-> metadata]

\* the nil *AgentResponse
NilResponse == [isNil |-> TRUE, Content |-> <<>>, ImageURLs |-> <<>>, Metadata |-> NilMap]

\* the zero Message, standing for a *Message that is nil
NoMessage == Message("", <<>>, <<>>, <<>>, "", NilMap)

(***************************************************************************)
(* Converter                                                               *)
(***************************************************************************)
\* the length above which a string that is no URL is taken for base64
ImageMinLen == 100

Base64Alphabet ==
  {"A", "B", "C", "D", "E", "F", "G", "H", "I", "J", "K", "L", "M", "N", "O", "P", "Q", "R",
   "S", "T", "U", "V", "W", "X", "Y", "Z", "a", "b", "c", "d", "e", "f", "g", "h", "i", "j",
   "k", "l", "m", "n", "o", "p", "q", "r", "s", "t", "u", "v", "w", "x", "y", "z", "0", "1",
   "2", "3", "4", "5", "6", "7", "8", "9", "+", "/"}

\* whether base64.StdEncoding.DecodeString(s) returns no error: line breaks are
\* skipped, the rest is whole quanta of four characters, the last one padded with
\* at most two "="
Base64Decodes(s) ==
  LET t == SelectSeq(s, LAMBDA c : c \notin {"\r", "\n"})
      n == Len(t)
      pad == IF n >= 2 /\ t[n] = "=" /\ t[n - 1] = "=" THEN 2
             ELSE IF n >= 1 /\ t[n] = "=" THEN 1 ELSE 0
  IN /\ n % 4 = 0
     /\ \A i \in 1..(n - pad) : t[i] \in Base64Alphabet

\* extractBase64Image taking every string above the length for base64
extractBase64ImageNoDecode(content) ==
  LET commas == {i \in 1..Len(content) : content[i] = ","} IN
  IF HasPrefix(content, DataImagePrefix) /\ Cardinality(commas) = 1
  THEN LET i == CHOOSE i \in commas : TRUE
       IN [ok |-> TRUE, data |-> SubSeq(content, i + 1, Len(content))]
  ELSE IF Len(content) > ImageMinLen
       THEN [ok |-> TRUE, data |-> content]
       ELSE [ok |-> FALSE, data |-> <<>>]

\* extractBase64Image returning the content where it returns an error
extractBase64ImageNeverFails(content) ==
  LET commas == {i \in 1..Len(content) : content[i] = ","} IN
  IF HasPrefix(content, DataImagePrefix) /\ Cardinality(commas) = 1
  THEN LET i == CHOOSE i \in commas : TRUE
       IN [ok |-> TRUE, data |-> SubSeq(content, i + 1, Len(content))]
  ELSE [ok |-> TRUE, data |-> content]

\* extractBase64Image: [ok, data]
extractBase64Image(content) ==
  LET commas == {i \in 1..Len(content) : content[i] = ","} IN
  IF HasPrefix(content, DataImagePrefix) /\ Cardinality(commas) = 1
  THEN LET i == CHOOSE i \in commas : TRUE
       IN [ok |-> TRUE, data |-> SubSeq(content, i + 1, Len(content))]
  ELSE IF Base64Decodes(content) /\ Len(content) > ImageMinLen
       THEN [ok |-> TRUE, data |-> content]
       ELSE [ok |-> FALSE, data |-> <<>>]

\* the test the converter repeats for "may be base64"
LooksBase64(s) ==
  HasPrefix(s, DataImagePrefix) \/ (Len(s) > ImageMinLen /\ ~HasPrefix(s, HttpPrefix))

\* the metadata loop of ToAgentRequest
CopyMetadata(metadata) ==
  MapOf([k \in {x \in DOMAIN metadata.kv :
                  x = "conversation_id" => isUUID(metadata.kv[x])} |-> metadata.kv[k]])

ToAgentRequest(msg) ==
  LET copied == CopyMetadata(msg.Metadata)
      imageType == msg.MessageType = "image"
      fromContent ==
        IF imageType /\ LooksBase64(msg.Content)
        THEN LET r == extractBase64Image(msg.Content)
             IN IF r.ok THEN <<r.data>> ELSE <<>>
        ELSE IF imageType /\ HasPrefix(msg.Content, HttpPrefix)
             THEN <<msg.Content>>
             ELSE <<>>
      withMedia ==
        IF imageType /\ MapHas(msg.Metadata, "media_id")
        THEN MapSet(MapSet(copied, "media_id", MapGet(msg.Metadata, "media_id")),
                    "platform", msg.Platform)
        ELSE copied
      mixed ==
        IF /\ msg.MessageType = "text"
           /\ MapGet(msg.Metadata, "image_key") # <<>>
           /\ LooksBase64(msg.Content)
        THEN <<msg.Content>>
        ELSE <<>>
  IN [Query |-> msg.Content, ImageURLs |-> fromContent \o mixed, SessionID |-> msg.SessionID,
      UserID |-> msg.UserID, Contexts |-> <<>>, Metadata |-> withMedia]

\* FromAgentResponse joining every image reference, the first one too
FromAgentResponseJoinsAll(resp, originalMsg) ==
  LET n == Len(resp.ImageURLs)
      base == Message(originalMsg.Platform, originalMsg.SessionID, originalMsg.UserID,
                      resp.Content, "text", resp.Metadata)
  IN IF resp.isNil \/ (n > 1 /\ resp.Metadata.isNil)
     THEN [panic |-> TRUE, msg |-> base]
     ELSE IF n = 0
     THEN [panic |-> FALSE, msg |-> base]
     ELSE [panic |-> FALSE,
           msg |-> [base EXCEPT
                      !.MessageType = "image",
                      !.Content = resp.ImageURLs[1],
                      !.Metadata = IF n > 1
                                   THEN MapSet(resp.Metadata, "additional_images",
                                               Join(resp.ImageURLs, <<",">>))
                                   ELSE resp.Metadata]]

\* FromAgentResponse: [panic, msg]; it dereferences resp, and writes
\* additional_images into resp.Metadata, which panics on a nil map
FromAgentResponse(resp, originalMsg) ==
  LET n == Len(resp.ImageURLs)
      base == Message(originalMsg.Platform, originalMsg.SessionID, originalMsg.UserID,
                      resp.Content, "text", resp.Metadata)
  IN IF resp.isNil \/ (n > 1 /\ resp.Metadata.isNil)
     THEN [panic |-> TRUE, msg |-> base]
     ELSE IF n = 0
     THEN [panic |-> FALSE, msg |-> base]
     ELSE [panic |-> FALSE,
           msg |-> [base EXCEPT
                      !.MessageType = "image",
                      !.Content = resp.ImageURLs[1],
                      !.Metadata = IF n > 1
                                   THEN MapSet(resp.Metadata, "additional_images",
                                               Join(Tail(resp.ImageURLs), <<",">>))
                                   ELSE resp.Metadata]]

\* NormalizeContent replacing the CRLF pairs only
NormalizeContentKeepsCR(msg) ==
  IF msg.MessageType = "text"
  THEN [msg EXCEPT !.Content = ReplaceCRLF(TrimSpace(msg.Content))]
  ELSE IF /\ msg.MessageType = "image"
          /\ ~HasPrefix(msg.Content, HttpPrefix)
          /\ ~HasPrefix(msg.Content, DataImagePrefix)
          /\ Len(msg.Content) > ImageMinLen
       THEN [msg EXCEPT !.Content = DataPngPrefix \o msg.Content]
       ELSE msg

\* NormalizeContent prefixing every long image content that is not a URL
NormalizeContentPrefixesAgain(msg) ==
  IF msg.MessageType = "text"
  THEN [msg EXCEPT !.Content = ReplaceCR(ReplaceCRLF(TrimSpace(msg.Content)))]
  ELSE IF /\ msg.MessageType = "image"
          /\ ~HasPrefix(msg.Content, HttpPrefix)
          /\ Len(msg.Content) > ImageMinLen
       THEN [msg EXCEPT !.Content = DataPngPrefix \o msg.Content]
       ELSE msg

NormalizeContent(msg) ==
  IF msg.MessageType = "text"
  THEN [msg EXCEPT !.Content = ReplaceCR(ReplaceCRLF(TrimSpace(msg.Content)))]
  ELSE IF /\ msg.MessageType = "image"
          /\ ~HasPrefix(msg.Content, HttpPrefix)
          /\ ~HasPrefix(msg.Content, DataImagePrefix)
          /\ Len(msg.Content) > ImageMinLen
       THEN [msg EXCEPT !.Content = DataPngPrefix \o msg.Content]
       ELSE msg

\* the metadata loop of MergeMessages over messages[k..]: a key already
\* present keeps its value
RECURSIVE MergeMetadata(_, _, _)
MergeMetadata(messages, k, merged) ==
  IF k > Len(messages) THEN merged
  ELSE LET md == messages[k].Metadata.kv
           next == [x \in (DOMAIN merged) \cup (DOMAIN md) |->
                      IF x \in DOMAIN merged THEN merged[x] ELSE md[x]]
       IN MergeMetadata(messages, k + 1, next)

\* the metadata loop with a later value replacing an earlier one
RECURSIVE MergeMetadataLastWins(_, _, _)
MergeMetadataLastWins(messages, k, merged) ==
  IF k > Len(messages) THEN merged
  ELSE LET md == messages[k].Metadata.kv
           next == [x \in (DOMAIN merged) \cup (DOMAIN md) |->
                      IF x \in DOMAIN md THEN md[x] ELSE merged[x]]
       IN MergeMetadataLastWins(messages, k + 1, next)

\* the content loop of MergeMessages over messages[k..]
RECURSIVE MergeContent(_, _)
MergeContent(messages, k) ==
  IF k > Len(messages) THEN <<>>
  ELSE (IF messages[k].MessageType = "text" THEN messages[k].Content ELSE <<>>)
         \o MergeContent(messages, k + 1)

\* MergeMessages with the metadata of later messages replacing earlier values
MergeMessagesLastWins(messages) ==
  IF Len(messages) = 0 THEN [isNil |-> TRUE, msg |-> NoMessage]
  ELSE IF Len(messages) = 1 THEN [isNil |-> FALSE, msg |-> messages[1]]
  ELSE [isNil |-> FALSE,
        msg |-> Message(messages[1].Platform, messages[1].SessionID, messages[1].UserID,
                        MergeContent(messages, 1), "text",
                        MapOf(MergeMetadataLastWins(messages, 1, NoKeys)))]

\* MergeMessages: [isNil, msg], the *Message it returns
MergeMessages(messages) ==
  IF Len(messages) = 0 THEN [isNil |-> TRUE, msg |-> NoMessage]
  ELSE IF Len(messages) = 1 THEN [isNil |-> FALSE, msg |-> messages[1]]
  ELSE [isNil |-> FALSE,
        msg |-> Message(messages[1].Platform, messages[1].SessionID, messages[1].UserID,
                        MergeContent(messages, 1), "text",
                        MapOf(MergeMetadata(messages, 1, NoKeys)))]

\* the default of SplitLongText, and the limit sendToPlatform passes for WeCom
DefaultMaxLen == 2048

\* the runes SplitLongText compares a byte with; a byte equals none of the three
\* that lie outside Latin-1
BoundaryRunes == {"\n", "U+3002", "U+FF01", "U+FF1F", ".", "!", "?"}

\* the backward search for a cut position in text[start:end] (offsets from 0)
CutPos(text, start, end, maxLen) ==
  LET found == {i \in (start + (maxLen \div 2) + 1)..end :
                  i < Len(text) /\ text[i] \in BoundaryRunes}
  IN IF found = {} THEN end ELSE CHOOSE i \in found : \A j \in found : j <= i

\* the loop continuing one byte after the cut
RECURSIVE SplitFromSkipping(_, _, _)
SplitFromSkipping(text, maxLen, start) ==
  IF start >= Len(text) THEN <<>>
  ELSE LET raw == IF start + maxLen > Len(text) THEN Len(text) ELSE start + maxLen
           end == IF raw < Len(text) THEN CutPos(text, start, raw, maxLen) ELSE raw
       IN <<SubSeq(text, start + 1, end)>> \o SplitFromSkipping(text, maxLen, end + 1)

RECURSIVE SplitFrom(_, _, _)
SplitFrom(text, maxLen, start) ==
  IF start >= Len(text) THEN <<>>
  ELSE LET raw == IF start + maxLen > Len(text) THEN Len(text) ELSE start + maxLen
           end == IF raw < Len(text) THEN CutPos(text, start, raw, maxLen) ELSE raw
       IN <<SubSeq(text, start + 1, end)>> \o SplitFrom(text, maxLen, end)

\* SplitLongText without the early return for a text within the limit
SplitLongTextAlwaysWindows(text, maxLen0) ==
  LET maxLen == IF maxLen0 <= 0 THEN DefaultMaxLen ELSE maxLen0
  IN SplitFrom(text, maxLen, 0)

\* SplitLongText taking the absolute value of a limit below zero
SplitLongTextNegated(text, maxLen0) ==
  LET maxLen == IF maxLen0 = 0 THEN DefaultMaxLen ELSE IF maxLen0 < 0 THEN -maxLen0 ELSE maxLen0
  IN IF Len(text) <= maxLen THEN <<text>> ELSE SplitFrom(text, maxLen, 0)

SplitLongText(text, maxLen0) ==
  LET maxLen == IF maxLen0 <= 0 THEN DefaultMaxLen ELSE maxLen0
  IN IF Len(text) <= maxLen THEN <<text>> ELSE SplitFrom(text, maxLen, 0)

\* BuildDifyRequest: [payload, req]; req is the request after the call, which
\* deletes a conversation_id that is no UUID from req.Metadata
BuildDifyRequest(req, variables) ==
  LET cid == MapGet(req.Metadata, "conversation_id")
      present == MapHas(req.Metadata, "conversation_id") /\ cid # <<>>
      fromMetadata == IF present /\ isUUID(cid) THEN cid ELSE <<>>
      conversationID ==
        IF fromMetadata = <<>> /\ isUUID(req.SessionID) THEN req.SessionID ELSE fromMetadata
      file(imgURL) ==
        IF LooksBase64(imgURL)
        THEN [type |-> "image", transfer_method |-> "local_file", base64_data |-> imgURL]
        ELSE [type |-> "image", transfer_method |-> "remote_url", url |-> imgURL]
      files == [i \in 1..Len(req.ImageURLs) |-> file(req.ImageURLs[i])]
      base == [query |-> req.Query, user |-> req.SessionID, response_mode |-> "streaming",
               inputs |-> variables]
      withID == IF conversationID # <<>> /\ isUUID(conversationID)
                THEN base @@ ("conversation_id" :> conversationID)
                ELSE base
  IN [payload |-> IF Len(files) > 0 THEN withID @@ ("files" :> files) ELSE withID,
      req |-> IF present /\ ~isUUID(cid)
              THEN [req EXCEPT !.Metadata = MapDelete(@, "conversation_id")]
              ELSE req]

BuildCozeRequest(req, botID) ==
  LET part(imgURL) ==
        IF LooksBase64(imgURL)
        THEN [type |-> "image", base64 |-> imgURL, need_upload |-> TRUE]
        ELSE [type |-> "image", url |-> imgURL]
      content ==
        (IF req.Query # <<>> THEN <<[type |-> "text", text |-> req.Query]>> ELSE <<>>)
        \o [i \in 1..Len(req.ImageURLs) |-> part(req.ImageURLs[i])]
      messages ==
        IF Len(req.ImageURLs) > 0
        THEN <<[role |-> "user", content |-> [json |-> content],
                content_type |-> "object_string"]>>
        ELSE IF req.Query # <<>>
             THEN <<[role |-> "user", content |-> req.Query, content_type |-> "text"]>>
             ELSE <<>>
      base == [bot_id |-> botID, user_id |-> req.UserID, stream |-> TRUE,
               auto_save_history |-> TRUE, additional_messages |-> req.Contexts \o messages]
  IN IF req.SessionID # <<>> THEN base @@ ("conversation_id" :> req.SessionID) ELSE base

(***************************************************************************)
(* The response stream of an agent backend.  A line of the body is         *)
(*   [kind |-> "blank"]            an empty line                           *)
(*   [kind |-> "other"]            a line without the prefix "data: "      *)
(*   [kind |-> "done"]             data: [DONE]                            *)
(*   [kind |-> "bad"]              data: followed by text that             *)
(*                                 json.Unmarshal rejects                  *)
(*   [kind |-> "json", obj |-> o]  data: followed by the JSON object o     *)
(* A JSON object is a function from its keys to JSON values: a string is   *)
(* [t |-> "str", v |-> its bytes], a number [t |-> "num"], an object       *)
(* [t |-> "obj", v |-> the object].  The body ends with end of file or     *)
(* with a read error of the transport.                                     *)
(***************************************************************************)
JStr(s) == [t |-> "str", v |-> s]

JNum == [t |-> "num"]

JObj(o) == [t |-> "obj", v |-> o]

\* data[k].(string)
IsStr(obj, k) == k \in DOMAIN obj /\ obj[k].t = "str"

\* data[k].(map[string]interface{})
IsObj(obj, k) == k \in DOMAIN obj /\ obj[k].t = "obj"

ParseCozeResponse(data) ==
  LET content == IF IsStr(data, "content") THEN data["content"].v ELSE <<>>
      delta == IF IsObj(data, "delta") /\ IsStr(data["delta"].v, "content")
               THEN data["delta"].v["content"].v
               ELSE content
      m1 == IF IsStr(data, "conversation_id")
            THEN MapSet(EmptyMap, "conversation_id", data["conversation_id"].v)
            ELSE EmptyMap
      m2 == IF IsStr(data, "message_id")
            THEN MapSet(m1, "message_id", data["message_id"].v)
            ELSE m1
  IN AgentResponse(delta, <<>>, m2)

\* the locals of the read loop of Chat
NoEvent == [kind |-> "none"]

ScanStart ==
  [fullResponse |-> <<>>, conversationID |-> <<>>, messageID |-> <<>>, eventData |-> NoEvent,
   broke |-> FALSE]

\* one iteration of the read loop of dify.Agent.Chat
DifyLine(st, line) ==
  IF line.kind = "done" THEN [st EXCEPT !.broke = TRUE]
  ELSE IF line.kind = "json"
  THEN LET event == line.obj IN
       [st EXCEPT
          !.fullResponse = IF IsStr(event, "answer") THEN @ \o event["answer"].v ELSE @,
          !.conversationID = IF IsStr(event, "conversation_id")
                                /\ event["conversation_id"].v # <<>>
                             THEN event["conversation_id"].v ELSE @,
          !.messageID = IF IsStr(event, "message_id") /\ event["message_id"].v # <<>>
                        THEN event["message_id"].v ELSE @]
  ELSE st

\* one iteration of the read loop of coze.Agent.Chat
CozeLine(st, line) ==
  IF line.kind = "blank"
  THEN IF st.eventData.kind = "json"
       THEN LET agentResp == ParseCozeResponse(st.eventData.obj) IN
            [st EXCEPT
               !.fullResponse = @ \o agentResp.Content,
               !.conversationID = IF MapHas(agentResp.Metadata, "conversation_id")
                                  THEN MapGet(agentResp.Metadata, "conversation_id") ELSE @,
               !.messageID = IF MapHas(agentResp.Metadata, "message_id")
                             THEN MapGet(agentResp.Metadata, "message_id") ELSE @,
               !.eventData = NoEvent]
       ELSE [st EXCEPT !.eventData = NoEvent]
  ELSE IF line.kind = "done" THEN [st EXCEPT !.broke = TRUE]
  ELSE IF line.kind \in {"json", "bad"} THEN [st EXCEPT !.eventData = line]
  ELSE st

ScanLine(backend, st, line) == IF backend = "dify" THEN DifyLine(st, line) ELSE CozeLine(st, line)

NoError == [isNil |-> TRUE, text |-> <<>>]

Errorf(text) == [isNil |-> FALSE, text |-> text]

\* a mutant: an empty text is returned as it is
ChatFinishNoFallback(st, readErr, cause) ==
  IF readErr /\ ~st.broke
  THEN [resp |-> NilResponse, err |-> Errorf(ErrReadResponse \o cause)]
  ELSE LET m1 == IF st.conversationID # <<>>
                 THEN MapSet(EmptyMap, "conversation_id", st.conversationID)
                 ELSE EmptyMap
           m2 == IF st.messageID # <<>> THEN MapSet(m1, "message_id", st.messageID) ELSE m1
       IN [resp |-> AgentResponse(st.fullResponse, <<>>, m2), err |-> NoError]

\* the statements of Chat after the loop without the test of scanner.Err()
ChatFinishIgnoresReadErr(st, readErr, cause) ==
  LET response == IF st.fullResponse = <<>> THEN FallbackText ELSE st.fullResponse
      m1 == IF st.conversationID # <<>>
            THEN MapSet(EmptyMap, "conversation_id", st.conversationID)
            ELSE EmptyMap
      m2 == IF st.messageID # <<>> THEN MapSet(m1, "message_id", st.messageID) ELSE m1
  IN [resp |-> AgentResponse(response, <<>>, m2), err |-> NoError]

\* the statements of Chat after the read loop: [resp, err]
ChatFinish(st, readErr, cause) ==
  IF readErr /\ ~st.broke
  THEN [resp |-> NilResponse, err |-> Errorf(ErrReadResponse \o cause)]
  ELSE LET response == IF st.fullResponse = <<>> THEN FallbackText ELSE st.fullResponse
           m1 == IF st.conversationID # <<>>
                 THEN MapSet(EmptyMap, "conversation_id", st.conversationID)
                 ELSE EmptyMap
           m2 == IF st.messageID # <<>> THEN MapSet(m1, "message_id", st.messageID) ELSE m1
       IN [resp |-> AgentResponse(response, <<>>, m2), err |-> NoError]

\* the read loop over the lines of a body
RECURSIVE ScanAll(_, _, _)
ScanAll(backend, st, lines) ==
  IF Len(lines) = 0 \/ st.broke THEN st
  ELSE ScanAll(backend, ScanLine(backend, st, lines[1]), Tail(lines))

(***************************************************************************)
(* The HTTP exchange of Chat.  An exchange is what the network does with   *)
(* one request: the send fails, or a status line arrives with a body.      *)
(***************************************************************************)
StatusOK == 200

StatusUnauthorized == 401

SendFails(cause) == [send |-> "fail", cause |-> cause]

Responds(status, body, lines, readErr) ==
  [send |-> "ok", status |-> status, body |-> body, lines |-> lines, readErr |-> readErr,
   cause |-> CauseEOF]

\* dify.Agent.Chat: [resp, err, req, payload]
DifyChat(userID, req, http) ==
  LET built == BuildDifyRequest(req, <<>>)
      payload == [built.payload EXCEPT !["user"] = IF userID # <<>> THEN userID ELSE req.SessionID]
      out == IF http.send = "fail"
             THEN [resp |-> NilResponse, err |-> Errorf(ErrSendRequest \o http.cause)]
             ELSE IF http.status # StatusOK
             THEN [resp |-> NilResponse,
                   err |-> Errorf(ErrDifyAPI \o Itoa(http.status) \o CommaSpace \o http.body)]
             ELSE ChatFinish(ScanAll("dify", ScanStart, http.lines), http.readErr, http.cause)
  IN [resp |-> out.resp, err |-> out.err, req |-> built.req, payload |-> payload]

\* coze.Agent.Chat: [resp, err, req, payload]
CozeChat(userID, botID, req, http) ==
  LET built == BuildCozeRequest(req, botID)
      payload == [built EXCEPT !["user_id"] = IF userID # <<>> THEN userID ELSE req.UserID]
      out == IF http.send = "fail"
             THEN [resp |-> NilResponse, err |-> Errorf(ErrSendRequest \o http.cause)]
             ELSE IF http.status = StatusUnauthorized
             THEN [resp |-> NilResponse, err |-> Errorf(ErrCozeAuth)]
             ELSE IF http.status # StatusOK
             THEN [resp |-> NilResponse,
                   err |-> Errorf(ErrCozeAPI \o Itoa(http.status) \o CommaSpace \o http.body)]
             ELSE ChatFinish(ScanAll("coze", ScanStart, http.lines), http.readErr, http.cause)
  IN [resp |-> out.resp, err |-> out.err, req |-> req, payload |-> payload]

(***************************************************************************)
(* State                                                                   *)
(***************************************************************************)
VARIABLES
  cfg,          \* Pipeline.cfg.Agent: [dify, coze], the Enabled flags
  difyAgent,    \* Pipeline.difyAgent is not nil
  cozeAgent,    \* Pipeline.cozeAgent is not nil
  senders,      \* Pipeline.senders: platform -> sender
  pc,           \* the state of the processMessage task
  msg,          \* processMessage: msg
  agentReq,     \* processMessage: agentReq
  agentResp,    \* processMessage: agentResp
  err,          \* processMessage: err
  responseMsg,  \* processMessage: responseMsg
  outcome,      \* how the dispatch ended: "success", "failed" or "nosender"
  dequeued,     \* history: msg as Pop returned it
  calls,        \* history: the Chat calls of the task, [backend, req, resp, err]
  sends,        \* history: the SendMessage calls of the task
  issued,       \* history: session -> the last valid conversation_id an agent issued
  turns,        \* history: the number of messages dequeued
  convIn,       \* converter check: the input
  convOut,      \* converter check: the result
  backend,      \* Chat: the backend whose read loop runs
  scanner,      \* Chat: the lines of the body not yet read
  bodyEnd,      \* Chat: how the body ends, "eof" or "readerr"
  asm,          \* Chat: the locals of the read loop
  chatOut,      \* Chat: what Chat returned
  body,         \* history: the lines of the body Chat was given
  ch,           \* Queue.ch: the messages the channel buffers, oldest first
  ctx,          \* the context Pop is called with: "live" or "done"
  pushed,       \* history: the last Push, [msg, before, after]
  popped,       \* history: what the last Pop or TryPop returned
  loop,         \* Start: where the loop is, and the error it returned
  tasks,        \* the processMessage goroutines Start launched, in launch order
  finished      \* history: the tasks that returned, in the order they returned

pipeVars ==
  <<cfg, difyAgent, cozeAgent, senders, pc, msg, agentReq, agentResp, err, responseMsg,
    outcome, dequeued, calls, sends, issued, turns>>

convVars == <<convIn, convOut>>

chatVars == <<backend, scanner, bodyEnd, asm, chatOut, body>>

queueVars == <<ch, ctx, pushed, popped>>

loopVars == <<loop, tasks, finished>>

vars == <<pipeVars, convVars, chatVars, queueVars, loopVars>>

(***************************************************************************)
(* Bounds and inputs                                                       *)
(***************************************************************************)
\* messages dequeued in one behaviour
MaxTurns == 2

Sessions == {ChatHandle, UserHandle}

\* lark.Adapter.handleMessageEvent: the message built for a text event
LarkMessage(chatID, openID, text) ==
  Message(PlatformLark, chatID, openID, text, "text",
          MapOf([message_id |-> <<"m">>, chat_id |-> chatID, chat_type |-> <<"p">>]))

\* wecom.Adapter.convertMessage: the message built for a text callback
WeComMessage(fromUser, text) ==
  Message(PlatformWeCom, fromUser, fromUser, text, "text",
          MapOf([msg_id |-> <<"m">>, to_user |-> <<"c">>, create_time |-> <<"1">>]))

\* a message whose metadata carries a conversation_id
Carrying(m, cid) == [m EXCEPT !.Metadata = MapSet(@, "conversation_id", cid)]

\* the messages a listener pushes
Inbound ==
  LET lark == LarkMessage(ChatHandle, UserHandle, TextHello)
      wecom == WeComMessage(UserHandle, TextHi)
  IN {lark, wecom, Carrying(lark, UuidLower), Carrying(lark, NotAUuid)}

\* a data event of a body, readable by both backends
Event(text, cid) ==
  LET o == [answer |-> JStr(text), content |-> JStr(text)]
  IN [kind |-> "json", obj |-> IF cid = <<>> THEN o ELSE o @@ ("conversation_id" :> JStr(cid))]

Blank == [kind |-> "blank"]

\* an answer longer than two of the windows of SplitLongText, with a full stop
\* near the end of the first
LongAnswer ==
  Repeat("a", DefaultMaxLen - 8) \o <<".">> \o Repeat("a", DefaultMaxLen + 12)

\* the exchanges of the pipeline's Chat calls
Exchanges ==
  {SendFails(CauseTimeout),
   Responds(StatusOK, <<>>, <<Event(LongAnswer, <<>>), Blank>>, FALSE),
   Responds(500, BodyBusy, <<>>, FALSE),
   Responds(StatusOK, <<>>, <<>>, FALSE),
   Responds(StatusOK, <<>>, <<Event(TextHi, <<>>), Blank>>, TRUE),
   Responds(StatusOK, <<>>, <<Event(TextHi, <<>>), Blank>>, FALSE),
   Responds(StatusOK, <<>>, <<Event(TextHi, UuidOther), Blank>>, FALSE),
   Responds(StatusOK, <<>>, <<Event(TextHi, UuidUpper), Blank>>, FALSE),
   Responds(StatusOK, <<>>, <<Event(TextOk, NotAUuid), Blank>>, FALSE)}

\* the senders the adapters register
Senders == [lark |-> "larkAdapter", wecom |-> "wecomAdapter"]

NoRequest ==
  [Query |-> <<>>, ImageURLs |-> <<>>, SessionID |-> <<>>, UserID |-> <<>>, Contexts |-> <<>>,
   Metadata |-> NilMap]

NoSenders == [p \in {} |-> ""]

(***************************************************************************)
(* Pipeline                                                                *)
(***************************************************************************)
\* pipeline.New: a client is built for each backend enabled in cfg
PipeInit ==
  /\ cfg \in [dify : BOOLEAN, coze : BOOLEAN]
  /\ difyAgent = cfg.dify
  /\ cozeAgent = cfg.coze
  /\ senders = NoSenders
  /\ pc = "idle"
  /\ msg = NoMessage
  /\ agentReq = NoRequest
  /\ agentResp = NilResponse
  /\ err = NoError
  /\ responseMsg = NoMessage
  /\ outcome = "none"
  /\ dequeued = NoMessage
  /\ calls = <<>>
  /\ sends = <<>>
  /\ issued = [s \in Sessions |-> <<>>]
  /\ turns = 0

NotConverted == [op |-> "none", req |-> NoRequest, payload |-> <<>>]

ConvIdle == convIn = NoMessage /\ convOut = NotConverted

NotReturned == [returned |-> FALSE, resp |-> NilResponse, err |-> NoError]

ChatIdle ==
  /\ backend = "none"
  /\ scanner = <<>>
  /\ bodyEnd = "eof"
  /\ asm = ScanStart
  /\ chatOut = NotReturned
  /\ body = <<>>

NoPush == [done |-> FALSE, msg |-> NoMessage, before |-> <<>>, after |-> <<>>]

NoPop == [done |-> FALSE, op |-> "none", msg |-> NoMessage, ok |-> FALSE]

\* Start at the top of its loop
NotStarted == [at |-> "select", err |-> NoError]

\* NewQueue: an empty channel; the context is live; no task is running
QueueIdle ==
  /\ ch = <<>>
  /\ ctx = "live"
  /\ pushed = NoPush
  /\ popped = NoPop
  /\ loop = NotStarted
  /\ tasks = <<>>
  /\ finished = <<>>

RegisterSender(platform, sender) ==
  /\ senders' = [p \in (DOMAIN senders) \cup {platform} |->
                   IF p = platform THEN sender ELSE senders[p]]
  /\ UNCHANGED <<convVars, chatVars, queueVars, loopVars, cfg, difyAgent, cozeAgent, pc, msg, agentReq, agentResp,
                 err, responseMsg,
                 outcome, dequeued, calls, sends, issued, turns>>

\* Start: Pop returns m and processMessage starts on it.  One task runs at a time:
\* a task shares nothing it writes with another task.
Dequeue(m) ==
  /\ pc \in {"idle", "Dispatched"}
  /\ turns < MaxTurns
  /\ turns' = turns + 1
  /\ pc' = "Dequeued"
  /\ msg' = m
  /\ dequeued' = m
  /\ agentReq' = NoRequest
  /\ agentResp' = NilResponse
  /\ err' = NoError
  /\ responseMsg' = NoMessage
  /\ outcome' = "none"
  /\ calls' = <<>>
  /\ sends' = <<>>
  /\ UNCHANGED <<convVars, chatVars, queueVars, loopVars, cfg, difyAgent, cozeAgent, senders, issued>>

Normalize ==
  /\ pc = "Dequeued"
  /\ msg' = NormalizeContent(msg)
  /\ pc' = "Normalized"
  /\ UNCHANGED <<convVars, chatVars, queueVars, loopVars, cfg, difyAgent, cozeAgent, senders, agentReq, agentResp,
                 err, responseMsg,
                 outcome, dequeued, calls, sends, issued, turns>>

Convert ==
  /\ pc = "Normalized"
  /\ agentReq' = ToAgentRequest(msg)
  /\ pc' = "Converted"
  /\ UNCHANGED <<convVars, chatVars, queueVars, loopVars, cfg, difyAgent, cozeAgent, senders, msg, agentResp, err,
                 responseMsg,
                 outcome, dequeued, calls, sends, issued, turns>>

\* a mutant: Coze is called whether or not Dify failed
TriesCozeAlways(difyErr) == cfg.coze

\* whether processMessage goes on to Coze after the Dify call
TriesCoze(difyErr) == ~difyErr.isNil /\ cfg.coze

\* history: a Chat call, the exchange it made and what it returned
Called(name, r, req, http) ==
  [backend |-> name, req |-> req, resp |-> r.resp, err |-> r.err, http |-> http]

\* p.difyAgent.Chat(ctx, agentReq)
InvokeDify ==
  /\ pc = "Converted"
  /\ cfg.dify
  /\ IF ~difyAgent
     THEN pc' = "panic" /\ UNCHANGED <<agentReq, agentResp, err, calls>>
     ELSE \E http \in Exchanges :
            LET r == DifyChat(<<>>, agentReq, http) IN
            /\ agentReq' = r.req
            /\ agentResp' = r.resp
            /\ err' = r.err
            /\ calls' = Append(calls, Called("dify", r, agentReq, http))
            /\ pc' = IF TriesCoze(r.err) THEN "Fallback" ELSE "AgentInvoked"
  /\ UNCHANGED <<convVars, chatVars, queueVars, loopVars, cfg, difyAgent, cozeAgent, senders, msg, responseMsg,
                 outcome, dequeued,
                 sends, issued, turns>>

\* p.cozeAgent.Chat(ctx, agentReq), as the fallback or as the only backend
InvokeCoze ==
  /\ \/ pc = "Fallback"
     \/ pc = "Converted" /\ ~cfg.dify /\ cfg.coze
  /\ IF ~cozeAgent
     THEN pc' = "panic" /\ UNCHANGED <<agentReq, agentResp, err, calls>>
     ELSE \E http \in Exchanges :
            LET r == CozeChat(<<>>, <<"b">>, agentReq, http) IN
            /\ agentReq' = r.req
            /\ agentResp' = r.resp
            /\ err' = r.err
            /\ calls' = Append(calls, Called("coze", r, agentReq, http))
            /\ pc' = "AgentInvoked"
  /\ UNCHANGED <<convVars, chatVars, queueVars, loopVars, cfg, difyAgent, cozeAgent, senders, msg, responseMsg,
                 outcome, dequeued,
                 sends, issued, turns>>

\* no backend is enabled: agentResp and err stay nil
InvokeNone ==
  /\ pc = "Converted"
  /\ ~cfg.dify
  /\ ~cfg.coze
  /\ pc' = "AgentInvoked"
  /\ UNCHANGED <<convVars, chatVars, queueVars, loopVars, cfg, difyAgent, cozeAgent, senders, msg, agentReq,
                 agentResp, err,
                 responseMsg, outcome, dequeued, calls, sends, issued, turns>>

\* a mutant: the reason of the failure is left out
ErrorResponseNoReason(e) ==
  [isNil |-> FALSE, Content |-> ErrPrefix, ImageURLs |-> <<>>, Metadata |-> NilMap]

\* the response processMessage builds from an error
ErrorResponse(e) ==
  [isNil |-> FALSE, Content |-> ErrPrefix \o e.text, ImageURLs |-> <<>>, Metadata |-> NilMap]

\* a mutant: the error tested is the primary's, not the last call's
ReplyToFirstError(resp, e) ==
  IF calls # <<>> /\ ~calls[1].err.isNil THEN ErrorResponse(calls[1].err) ELSE resp

\* if err != nil, the response is the one built from the error
ReplyTo(resp, e) == IF ~e.isNil THEN ErrorResponse(e) ELSE resp

\* the error branch, then FromAgentResponse
ConvertResponse ==
  /\ pc = "AgentInvoked"
  /\ LET resp == ReplyTo(agentResp, err)
         r == FromAgentResponse(resp, msg)
     IN /\ agentResp' = resp
        /\ IF r.panic
           THEN pc' = "panic" /\ UNCHANGED responseMsg
           ELSE pc' = "ResponseConverted" /\ responseMsg' = r.msg
  /\ UNCHANGED <<convVars, chatVars, queueVars, loopVars, cfg, difyAgent, cozeAgent, senders, msg, agentReq, err,
                 outcome, dequeued,
                 calls, sends, issued, turns>>

\* a mutant: an invalid identifier is removed from the reply only
ReconciledKeepsInbound(resp, m, reply) ==
  LET cid == MapGet(resp.Metadata, "conversation_id")
      carried == ~resp.isNil /\ ~resp.Metadata.isNil
                 /\ MapHas(resp.Metadata, "conversation_id") /\ cid # <<>>
      valid == uuidRegexMatch(ToLower(cid))
      meta == IF valid THEN MapSet(reply.Metadata, "conversation_id", cid)
              ELSE MapDelete(reply.Metadata, "conversation_id")
  IN IF ~carried
     THEN [msg |-> m, responseMsg |-> reply, agentResp |-> resp, stored |-> <<>>]
     ELSE [msg |-> IF valid THEN [m EXCEPT !.Metadata = MapSet(@, "conversation_id", cid)]
                   ELSE m,
           responseMsg |-> [reply EXCEPT !.Metadata = meta],
           agentResp |-> [resp EXCEPT !.Metadata = meta],
           stored |-> IF valid THEN cid ELSE <<>>]

\* the identity step of processMessage: [msg, responseMsg, agentResp, stored].
\* responseMsg.Metadata is the map of agentResp.Metadata, so a write to one is a
\* write to the other.
Reconciled(resp, m, reply) ==
  LET cid == MapGet(resp.Metadata, "conversation_id")
      carried == ~resp.isNil /\ ~resp.Metadata.isNil
                 /\ MapHas(resp.Metadata, "conversation_id") /\ cid # <<>>
      valid == uuidRegexMatch(ToLower(cid))
      same == [msg |-> m, responseMsg |-> reply, agentResp |-> resp, stored |-> <<>>]
  IN IF ~carried THEN same
     ELSE IF valid
     THEN LET meta == MapSet(reply.Metadata, "conversation_id", cid) IN
          [msg |-> [m EXCEPT !.Metadata = MapSet(@, "conversation_id", cid)],
           responseMsg |-> [reply EXCEPT !.Metadata = meta],
           agentResp |-> [resp EXCEPT !.Metadata = meta],
           stored |-> cid]
     ELSE LET meta == MapDelete(reply.Metadata, "conversation_id") IN
          [msg |-> [m EXCEPT !.Metadata = MapDelete(@, "conversation_id")],
           responseMsg |-> [reply EXCEPT !.Metadata = meta],
           agentResp |-> [resp EXCEPT !.Metadata = meta],
           stored |-> <<>>]

Reconcile ==
  /\ pc = "ResponseConverted"
  /\ LET r == Reconciled(agentResp, msg, responseMsg) IN
     /\ msg' = r.msg
     /\ responseMsg' = r.responseMsg
     /\ agentResp' = r.agentResp
     /\ issued' = IF r.stored # <<>> THEN [issued EXCEPT ![msg.SessionID] = r.stored]
                  ELSE issued
  /\ pc' = "IdentityReconciled"
  /\ UNCHANGED <<convVars, chatVars, queueVars, loopVars, cfg, difyAgent, cozeAgent, senders, agentReq, err,
                 outcome, dequeued, calls,
                 sends, turns>>

\* the limit sendToPlatform passes to SplitLongText
WeComMaxLen == 2048

\* sendToPlatform splitting the text for every platform
SendPlanSplitsAll(platform, reply) ==
  IF reply.MessageType = "text"
  THEN SplitLongText(reply.Content, WeComMaxLen)
  ELSE <<reply.Content>>

\* sendToPlatform: the contents it passes to SendMessage, in order
SendPlan(platform, reply) ==
  IF platform = PlatformWeCom /\ reply.MessageType = "text"
  THEN SplitLongText(reply.Content, WeComMaxLen)
  ELSE <<reply.Content>>

\* a lookup that falls back to whichever sender is registered
LookupAny(registry, platform) ==
  IF platform \in DOMAIN registry THEN [ok |-> TRUE, sender |-> registry[platform]]
  ELSE IF DOMAIN registry # {}
       THEN [ok |-> TRUE, sender |-> registry[CHOOSE q \in DOMAIN registry : TRUE]]
       ELSE [ok |-> FALSE, sender |-> ""]

\* sender, ok := p.senders[msg.Platform]
Lookup(registry, platform) ==
  IF platform \in DOMAIN registry THEN [ok |-> TRUE, sender |-> registry[platform]]
  ELSE [ok |-> FALSE, sender |-> ""]

\* the reply sent before the identity step
DispatchBeforeIdentity ==
  /\ pc = "ResponseConverted"
  /\ IF Lookup(senders, msg.Platform).ok
     THEN LET plan == SendPlan(msg.Platform, responseMsg) IN
          \E n \in 0..Len(plan) :
            /\ sends' = [i \in 1..(IF n < Len(plan) THEN n + 1 ELSE n) |->
                           [sender |-> Lookup(senders, msg.Platform).sender,
                            sessionID |-> responseMsg.SessionID,
                            content |-> plan[i], ok |-> i <= n]]
            /\ outcome' = IF n = Len(plan) THEN "success" ELSE "failed"
     ELSE sends' = <<>> /\ outcome' = "nosender"
  /\ pc' = "Dispatched"
  /\ UNCHANGED <<convVars, chatVars, queueVars, loopVars, cfg, difyAgent, cozeAgent, senders, msg, agentReq,
                 agentResp, err,
                 responseMsg, dequeued, calls, issued, turns>>

\* the sender lookup and sendToPlatform; the first n sends succeed, and the next
\* one, if there is one, fails and ends the loop
Dispatch ==
  /\ pc = "IdentityReconciled"
  /\ IF Lookup(senders, msg.Platform).ok
     THEN LET plan == SendPlan(msg.Platform, responseMsg) IN
          \E n \in 0..Len(plan) :
            /\ sends' = [i \in 1..(IF n < Len(plan) THEN n + 1 ELSE n) |->
                           [sender |-> Lookup(senders, msg.Platform).sender,
                            sessionID |-> responseMsg.SessionID,
                            content |-> plan[i], ok |-> i <= n]]
            /\ outcome' = IF n = Len(plan) THEN "success" ELSE "failed"
     ELSE sends' = <<>> /\ outcome' = "nosender"
  /\ pc' = "Dispatched"
  /\ UNCHANGED <<convVars, chatVars, queueVars, loopVars, cfg, difyAgent, cozeAgent, senders, msg, agentReq,
                 agentResp, err,
                 responseMsg, dequeued, calls, issued, turns>>

PipeNext ==
  \/ \E p \in DOMAIN Senders : RegisterSender(p, Senders[p])
  \/ \E m \in Inbound : Dequeue(m)
  \/ Normalize
  \/ Convert
  \/ InvokeDify
  \/ InvokeCoze
  \/ InvokeNone
  \/ ConvertResponse
  \/ Reconcile
  \/ Dispatch

Init == PipeInit /\ ConvIdle /\ ChatIdle /\ QueueIdle

Next == PipeNext

Spec == Init /\ [][Next]_vars

(***************************************************************************)
(* The pipeline with the configuration rewritten while it runs             *)
(***************************************************************************)
\* Server.updateConfig: the configuration object is overwritten by the one
\* of the request; the clients of the pipeline are those New built
UpdateConfig(newCfg) ==
  /\ cfg' = newCfg
  /\ UNCHANGED <<convVars, chatVars, queueVars, loopVars, difyAgent, cozeAgent, senders, pc, msg,
                 agentReq, agentResp, err, responseMsg, outcome, dequeued, calls, sends,
                 issued, turns>>

AdminNext ==
  \/ PipeNext
  \/ \E newCfg \in [dify : BOOLEAN, coze : BOOLEAN] : UpdateConfig(newCfg)

InitAdmin == PipeInit /\ ConvIdle /\ ChatIdle /\ QueueIdle

SpecAdmin == InitAdmin /\ [][AdminNext]_vars

(***************************************************************************)
(* The converter on its own: ToAgentRequest on a message, then the request *)
(* builders of the two backends on its result, as Chat calls them.         *)
(***************************************************************************)
ConvSessions == {ChatHandle, UuidOther, <<>>}

ConvIds ==
  {<<>>, UuidLower, UuidUpper, NotAUuid, UuidBadChar, UuidTooLong, UuidBadDash, ChatHandle}

ConvContents == {<<"text", TextHello>>, <<"image", DataUriSmall>>, <<"image", HttpUrl>>}

\* the messages ToAgentRequest is applied to: with and without a conversation_id
ConvMessages ==
  LET plain == {Message(p, s, UserHandle, c[2], c[1], MapOf([message_id |-> <<"m">>])) :
                  p \in {PlatformLark, PlatformWeCom}, s \in ConvSessions, c \in ConvContents}
  IN plain \cup {Carrying(m, cid) : m \in plain, cid \in ConvIds}

ConvInit == convIn \in ConvMessages /\ convOut = NotConverted

ConvToAgentRequest ==
  /\ convOut.op = "none"
  /\ convOut' = [op |-> "ToAgentRequest", req |-> ToAgentRequest(convIn), payload |-> <<>>]
  /\ UNCHANGED <<pipeVars, chatVars, queueVars, loopVars, convIn>>

ConvBuildDify ==
  /\ convOut.op = "ToAgentRequest"
  /\ LET built == BuildDifyRequest(convOut.req, <<>>) IN
     convOut' = [op |-> "BuildDifyRequest", req |-> built.req, payload |-> built.payload]
  /\ UNCHANGED <<pipeVars, chatVars, queueVars, loopVars, convIn>>

ConvBuildCoze ==
  /\ convOut.op = "ToAgentRequest"
  /\ convOut' = [op |-> "BuildCozeRequest", req |-> convOut.req,
                 payload |-> BuildCozeRequest(convOut.req, <<"b">>)]
  /\ UNCHANGED <<pipeVars, chatVars, queueVars, loopVars, convIn>>

PipeIdle == PipeInit /\ ~cfg.dify /\ ~cfg.coze

ConvNext == ConvToAgentRequest \/ ConvBuildDify \/ ConvBuildCoze

InitConv == PipeIdle /\ ConvInit /\ ChatIdle /\ QueueIdle

SpecConv == InitConv /\ [][ConvNext]_vars

(***************************************************************************)
(* Chat on its own: the read loop over a response body, line by line, and  *)
(* the statements after the loop.                                          *)
(***************************************************************************)
\* lines of a body
MaxLines == 3

Delta(text) == [kind |-> "json", obj |-> [delta |-> JObj([content |-> JStr(text)])]]

\* the lines a body is made of
Lines ==
  {Blank, [kind |-> "other"], [kind |-> "done"], [kind |-> "bad"],
   Event(TextHi, <<>>), Event(<<>>, UuidOther), Delta(TextOk),
   [kind |-> "json", obj |-> [answer |-> JNum, content |-> JNum, conversation_id |-> JNum]]}

RECURSIVE SeqsUpTo(_, _)
SeqsUpTo(S, n) ==
  IF n = 0 THEN {<<>>}
  ELSE LET shorter == SeqsUpTo(S, n - 1)
       IN shorter \cup {Append(s, x) : s \in shorter, x \in S}

\* an event that carries identifiers and no text
IdEvent(cid, mid) ==
  [kind |-> "json", obj |-> [conversation_id |-> JStr(cid), message_id |-> JStr(mid)]]

\* an event that carries the whole text so far
Full(text) == [kind |-> "json", obj |-> [content |-> JStr(text)]]

\* bodies longer than the enumerated ones, each event followed by a blank line:
\* deltas and then the whole text; identifiers and then empty ones;
\* identifiers and then other ones
Streams ==
  {<<Delta(<<"o">>), Blank, Delta(<<"k">>), Blank, Full(TextOk), Blank>>,
   <<Event(TextHi, UuidOther), Blank, IdEvent(<<>>, <<>>), Blank>>,
   <<IdEvent(UuidOther, <<"m", "1">>), Blank, Event(TextHi, <<>>), Blank,
     IdEvent(<<>>, <<>>), Blank, [kind |-> "done"]>>,
   <<IdEvent(UuidOther, <<"m", "1">>), Blank, Event(TextOk, UuidLower), Blank,
     IdEvent(UuidLower, <<"m", "2">>), Blank>>,
   <<Event(TextHi, UuidOther), Blank, [kind |-> "bad"], Blank, Delta(TextOk), Blank>>}

ChatInit ==
  /\ backend \in {"dify", "coze"}
  /\ scanner \in SeqsUpTo(Lines, MaxLines) \cup Streams
  /\ bodyEnd \in {"eof", "readerr"}
  /\ asm = ScanStart
  /\ chatOut = NotReturned
  /\ body = scanner

\* scanner.Scan() returned a line, in dify.Agent.Chat
DifyScan ==
  /\ backend = "dify"
  /\ ~chatOut.returned
  /\ ~asm.broke
  /\ scanner # <<>>
  /\ asm' = DifyLine(asm, Head(scanner))
  /\ scanner' = Tail(scanner)
  /\ UNCHANGED <<pipeVars, convVars, queueVars, loopVars, backend, bodyEnd, chatOut, body>>

\* scanner.Scan() returned a line, in coze.Agent.Chat
CozeScan ==
  /\ backend = "coze"
  /\ ~chatOut.returned
  /\ ~asm.broke
  /\ scanner # <<>>
  /\ asm' = CozeLine(asm, Head(scanner))
  /\ scanner' = Tail(scanner)
  /\ UNCHANGED <<pipeVars, convVars, queueVars, loopVars, backend, bodyEnd, chatOut, body>>

\* the loop ended, by break or because Scan returned false; Chat returns
ChatReturn ==
  /\ ~chatOut.returned
  /\ asm.broke \/ scanner = <<>>
  /\ LET r == ChatFinish(asm, bodyEnd = "readerr", CauseEOF) IN
     chatOut' = [returned |-> TRUE, resp |-> r.resp, err |-> r.err]
  /\ UNCHANGED <<pipeVars, convVars, queueVars, loopVars, backend, scanner, bodyEnd, asm, body>>

ChatNext == DifyScan \/ CozeScan \/ ChatReturn

InitStream == PipeIdle /\ ConvIdle /\ ChatInit /\ QueueIdle

SpecStream == InitStream /\ [][ChatNext]_vars

(***************************************************************************)
(* The ingress queue on its own: the listeners push, the pipeline pops.    *)
(***************************************************************************)
\* the size NewQueue is given
QueueSize == 2

\* the messages the listeners push
QueueMessages ==
  {LarkMessage(ChatHandle, UserHandle, TextHello), LarkMessage(ChatHandle, UserHandle, TextOk),
   WeComMessage(UserHandle, TextHi)}

\* Push as a send that displaces the oldest message of a full channel
PushOverwrites(m) ==
  /\ ch' = IF Len(ch) < QueueSize THEN Append(ch, m) ELSE Append(Tail(ch), m)
  /\ pushed' = [done |-> TRUE, msg |-> m, before |-> ch, after |-> ch']
  /\ UNCHANGED <<pipeVars, convVars, chatVars, loopVars, ctx, popped>>

\* Queue.Push: a select of the send and a default branch
Push(m) ==
  /\ ch' = IF Len(ch) < QueueSize THEN Append(ch, m) ELSE ch
  /\ pushed' = [done |-> TRUE, msg |-> m, before |-> ch, after |-> ch']
  /\ UNCHANGED <<pipeVars, convVars, chatVars, loopVars, ctx, popped>>

\* Queue.Pop, the receive branch of its select
PopMessage ==
  /\ ch # <<>>
  /\ popped' = [done |-> TRUE, op |-> "Pop", msg |-> Head(ch), ok |-> TRUE]
  /\ ch' = Tail(ch)
  /\ UNCHANGED <<pipeVars, convVars, chatVars, loopVars, ctx, pushed>>

\* Queue.Pop, the ctx.Done() branch of its select: it returns ctx.Err()
PopCancelled ==
  /\ ctx = "done"
  /\ popped' = [done |-> TRUE, op |-> "Pop", msg |-> NoMessage, ok |-> FALSE]
  /\ UNCHANGED <<pipeVars, convVars, chatVars, loopVars, ch, ctx, pushed>>

\* TryPop returning the oldest message without taking it off the channel
TryPopPeeks ==
  /\ popped' = IF ch # <<>>
               THEN [done |-> TRUE, op |-> "TryPop", msg |-> Head(ch), ok |-> TRUE]
               ELSE [done |-> TRUE, op |-> "TryPop", msg |-> NoMessage, ok |-> FALSE]
  /\ UNCHANGED <<pipeVars, convVars, chatVars, loopVars, ch, ctx, pushed>>

\* Queue.TryPop: a select of the receive and a default branch
TryPop ==
  /\ popped' = IF ch # <<>>
               THEN [done |-> TRUE, op |-> "TryPop", msg |-> Head(ch), ok |-> TRUE]
               ELSE [done |-> TRUE, op |-> "TryPop", msg |-> NoMessage, ok |-> FALSE]
  /\ ch' = IF ch # <<>> THEN Tail(ch) ELSE ch
  /\ UNCHANGED <<pipeVars, convVars, chatVars, loopVars, ctx, pushed>>

\* the context of the pipeline is cancelled
Cancel ==
  /\ ctx = "live"
  /\ ctx' = "done"
  /\ UNCHANGED <<pipeVars, convVars, chatVars, loopVars, ch, pushed, popped>>

QueueNext ==
  \/ \E m \in QueueMessages : Push(m)
  \/ PopMessage
  \/ PopCancelled
  \/ TryPop
  \/ Cancel

InitQueue == PipeIdle /\ ConvIdle /\ ChatIdle /\ QueueIdle

SpecQueue == InitQueue /\ [][QueueNext]_vars

(***************************************************************************)
(* SplitLongText on its own: one call on a text and a limit.               *)
(***************************************************************************)
\* the longest enumerated text
MaxTextLen == 4

\* the largest enumerated limit
MaxLimit == 8

\* the UTF-8 encodings of U+3002, U+FF01 and U+FF1F
IdeographicStop == <<"xE3", "x80", "x82">>

FullwidthExclamation == <<"xEF", "xBC", "x81">>

FullwidthQuestion == <<"xEF", "xBC", "x9F">>

\* all texts of letters, spaces and ASCII boundaries up to MaxTextLen bytes
ShortTexts == SeqsUpTo({"a", " ", ".", "\n"}, MaxTextLen)

\* texts longer than the enumerated limits, with and without boundaries
MarkedTexts ==
  {Repeat("a", 4) \o IdeographicStop \o Repeat("a", 3),
   Repeat("a", 6) \o FullwidthQuestion \o Repeat("a", 2),
   Repeat("a", 3) \o FullwidthExclamation \o <<"!">> \o Repeat("a", 4),
   Repeat("a", 5) \o <<"?">> \o Repeat("a", 5),
   Repeat("a", 2) \o <<".">> \o Repeat("a", 2) \o <<"!">> \o Repeat("a", 6),
   Repeat("a", 12)}

\* texts around the default limit
LongTexts ==
  {Repeat("a", DefaultMaxLen),
   Repeat("a", DefaultMaxLen + 1),
   Repeat("a", DefaultMaxLen - 40) \o <<".">> \o Repeat("a", DefaultMaxLen),
   Repeat("a", DefaultMaxLen - 40) \o IdeographicStop \o Repeat("a", 60),
   Repeat("a", 2 * DefaultMaxLen + 5)}

\* the calls: every short or marked text with every small limit, the default
\* and the values that select it; the long texts with the default only
SplitCalls ==
  [text : ShortTexts \cup MarkedTexts, maxLen : (-1..MaxLimit) \cup {DefaultMaxLen}]
    \cup [text : LongTexts, maxLen : {-1, 0, DefaultMaxLen}]

NotSplit == [op |-> "none", chunks |-> <<>>]

SplitInit == convIn \in SplitCalls /\ convOut = NotSplit

ConvSplitLongText ==
  /\ convOut.op = "none"
  /\ convOut' = [op |-> "SplitLongText", chunks |-> SplitLongText(convIn.text, convIn.maxLen)]
  /\ UNCHANGED <<pipeVars, chatVars, queueVars, loopVars, convIn>>

SplitNext == ConvSplitLongText

InitSplit == PipeIdle /\ SplitInit /\ ChatIdle /\ QueueIdle

SpecSplit == InitSplit /\ [][SplitNext]_vars

(***************************************************************************)
(* FromAgentResponse on its own: one call on a response and the message    *)
(* it answers.                                                             *)
(***************************************************************************)
\* image references of one response
MaxImages == 3

ImageRefs == {<<"a">>, <<"b">>, <<"c">>}

\* the responses the backends and the parsers build: a metadata map that is
\* not nil; and the error response of the pipeline: no images, a nil map
ReplyResponses ==
  {AgentResponse(c, urls, md) :
     c \in {<<>>, TextHi},
     urls \in SeqsUpTo(ImageRefs, MaxImages),
     md \in {EmptyMap, MapOf([conversation_id |-> UuidOther]),
             MapOf([additional_images |-> <<"z">>, message_id |-> <<"m">>])}}
    \cup {AgentResponse(ErrPrefix \o CauseTimeout, <<>>, NilMap)}

ReplyOriginals ==
  {LarkMessage(ChatHandle, UserHandle, TextHello), WeComMessage(UserHandle, TextHi),
   Carrying(LarkMessage(ChatHandle, UserHandle, TextHello), UuidLower)}

NotReplied == [op |-> "none", panic |-> FALSE, msg |-> NoMessage]

ReplyInit ==
  /\ convIn \in [resp : ReplyResponses, originalMsg : ReplyOriginals]
  /\ convOut = NotReplied

ConvFromAgentResponse ==
  /\ convOut.op = "none"
  /\ LET r == FromAgentResponse(convIn.resp, convIn.originalMsg) IN
     convOut' = [op |-> "FromAgentResponse", panic |-> r.panic, msg |-> r.msg]
  /\ UNCHANGED <<pipeVars, chatVars, queueVars, loopVars, convIn>>

ReplyNext == ConvFromAgentResponse

InitReply == PipeIdle /\ ReplyInit /\ ChatIdle /\ QueueIdle

SpecReply == InitReply /\ [][ReplyNext]_vars

(***************************************************************************)
(* MergeMessages on its own: one call on a sequence of messages.           *)
(***************************************************************************)
\* messages of one call
MaxMerge == 3

\* text and image messages whose metadata share keys; one without a map
MergePool ==
  {Message(PlatformLark, ChatHandle, UserHandle, TextHello, "text",
           MapOf([message_id |-> <<"1">>, chat_id |-> ChatHandle])),
   Message(PlatformLark, UserHandle, ChatHandle, TextHi, "text",
           MapOf([message_id |-> <<"2">>, conversation_id |-> UuidOther])),
   Message(PlatformWeCom, UserHandle, UserHandle, DataUriSmall, "image",
           MapOf([message_id |-> <<"3">>, chat_id |-> UserHandle])),
   Message(PlatformLark, ChatHandle, UserHandle, TextOk, "text", NilMap)}

NotMerged == [op |-> "none", isNil |-> TRUE, msg |-> NoMessage]

MergeInit == convIn \in SeqsUpTo(MergePool, MaxMerge) /\ convOut = NotMerged

ConvMergeMessages ==
  /\ convOut.op = "none"
  /\ LET r == MergeMessages(convIn) IN
     convOut' = [op |-> "MergeMessages", isNil |-> r.isNil, msg |-> r.msg]
  /\ UNCHANGED <<pipeVars, chatVars, queueVars, loopVars, convIn>>

MergeNext == ConvMergeMessages

InitMerge == PipeIdle /\ MergeInit /\ ChatIdle /\ QueueIdle

SpecMerge == InitMerge /\ [][MergeNext]_vars

(***************************************************************************)
(* NormalizeContent and ToAgentRequest on one message: the conversion on   *)
(* the message as it is, or after normalizing it as processMessage does.   *)
(***************************************************************************)
\* the longest enumerated content
MaxContentLen == 4

\* text contents: all of spaces, line ends and letters up to MaxContentLen
\* bytes, and some with the other space runes
TextContents ==
  SeqsUpTo({" ", "\r", "\n", "a"}, MaxContentLen)
    \cup {TextHello, TextHi,
          <<"xC2", "xA0", "a", "\r", "b", "xE3", "x80", "x80">>,
          <<"x0B", "\t", "a", "\r", "\r", "\n", "b", "\f", "xE2", "x80", "xA8">>,
          <<"xE3", "x80", "x82", "a", "x80">>}

\* image contents: data URIs, URLs, and strings on both sides of the length
\* above which a string is taken for base64, that decode and that do not
ImageContents ==
  {DataUriSmall, HttpUrl,
   HttpPrefix \o Repeat("a", ImageMinLen),
   DataImagePrefix \o Repeat("A", 8),
   DataUriSmall \o <<",">> \o Repeat("A", 4),
   Repeat("A", 4),
   Repeat("A", ImageMinLen),
   Repeat("A", ImageMinLen + 4),
   Repeat("A", ImageMinLen + 2) \o <<"=", "=">>,
   Repeat("A", ImageMinLen + 2),
   Repeat("A", ImageMinLen + 3) \o <<"-">>,
   Repeat("A", ImageMinLen + 3) \o <<",">>}

IngestMessages ==
  {Message(PlatformLark, ChatHandle, UserHandle, c, "text", MapOf([message_id |-> <<"m">>])) :
     c \in TextContents}
    \cup {Message(p, ChatHandle, UserHandle, c, "image", md) :
            p \in {PlatformLark, PlatformWeCom}, c \in ImageContents,
            md \in {MapOf([message_id |-> <<"m">>]), MapOf([media_id |-> <<"x">>]),
                    MapOf([image_key |-> <<"k">>])}}
    \cup {Message(p, ChatHandle, UserHandle, c, "text", md) :
            p \in {PlatformLark, PlatformWeCom}, c \in {TextHi, DataUriSmall},
            md \in {MapOf([media_id |-> <<"x">>]), MapOf([image_key |-> <<"k">>])}}

NotIngested == [op |-> "none", normalized |-> FALSE, msg |-> NoMessage, req |-> NoRequest]

IngestInit == convIn \in IngestMessages /\ convOut = NotIngested

\* NormalizeContent on the message
ConvNormalizeContent ==
  /\ convOut.op = "none"
  /\ convOut' = [op |-> "NormalizeContent", normalized |-> TRUE,
                 msg |-> NormalizeContent(convIn), req |-> NoRequest]
  /\ UNCHANGED <<pipeVars, chatVars, queueVars, loopVars, convIn>>

\* NormalizeContent on the message it has normalized
ConvNormalizeAgain ==
  /\ convOut.op = "NormalizeContent"
  /\ convOut' = [op |-> "NormalizeAgain", normalized |-> TRUE,
                 msg |-> NormalizeContent(convOut.msg), req |-> NoRequest]
  /\ UNCHANGED <<pipeVars, chatVars, queueVars, loopVars, convIn>>

\* ToAgentRequest on the message, normalized or not
ConvQuery ==
  /\ convOut.op \in {"none", "NormalizeContent", "NormalizeAgain"}
  /\ LET m == IF convOut.normalized THEN convOut.msg ELSE convIn IN
     convOut' = [op |-> "ToAgentRequest", normalized |-> convOut.normalized,
                 msg |-> m, req |-> ToAgentRequest(m)]
  /\ UNCHANGED <<pipeVars, chatVars, queueVars, loopVars, convIn>>

IngestNext == ConvNormalizeContent \/ ConvNormalizeAgain \/ ConvQuery

InitIngest == PipeIdle /\ IngestInit /\ ChatIdle /\ QueueIdle

SpecIngest == InitIngest /\ [][IngestNext]_vars

(***************************************************************************)
(* The payloads Chat marshals and posts, for requests that carry image     *)
(* references and prior turns: the request builders of the two backends    *)
(* followed by Chat's own assignment of the user field.                    *)
(***************************************************************************)
\* the most image references, and the most prior turns, of an enumerated request
MaxRefs == 2

MaxContexts == 2

\* a string above the length for base64 that decodes
Base64Long == Repeat("A", ImageMinLen + 4)

\* the payload of DataUriSmall
Base64Short == Repeat("A", 4)

PayloadRefs == {HttpUrl, Base64Short, Base64Long, DataUriSmall}

\* a prior turn: a record in the form of Coze's additional_messages
Turn(role, content) == [role |-> role, content |-> content, content_type |-> "text"]

PriorTurns == {Turn("user", TextHi), Turn("assistant", TextOk)}

PayloadRequests ==
  {[Query |-> q, ImageURLs |-> imgs, SessionID |-> s, UserID |-> UserHandle,
    Contexts |-> ctxs, Metadata |-> MapOf([message_id |-> <<"m">>])] :
     q \in {<<>>, TextHello}, imgs \in SeqsUpTo(PayloadRefs, MaxRefs), s \in {<<>>, ChatHandle},
     ctxs \in SeqsUpTo(PriorTurns, MaxContexts)}

PayloadInit == convIn \in PayloadRequests /\ convOut = NotConverted

\* dify.Agent.Chat up to json.Marshal(payload)
PayloadDify ==
  /\ convOut.op = "none"
  /\ \E userID \in {<<>>, UserHandle} :
       LET chat == DifyChat(userID, convIn, SendFails(CauseEOF)) IN
       convOut' = [op |-> "BuildDifyRequest", req |-> chat.req, payload |-> chat.payload]
  /\ UNCHANGED <<pipeVars, chatVars, queueVars, loopVars, convIn>>

\* coze.Agent.Chat up to json.Marshal(payload)
PayloadCoze ==
  /\ convOut.op = "none"
  /\ \E userID \in {<<>>, UserHandle} :
       LET chat == CozeChat(userID, <<"b">>, convIn, SendFails(CauseEOF)) IN
       convOut' = [op |-> "BuildCozeRequest", req |-> chat.req, payload |-> chat.payload]
  /\ UNCHANGED <<pipeVars, chatVars, queueVars, loopVars, convIn>>

PayloadNext == PayloadDify \/ PayloadCoze

InitPayload == PipeIdle /\ PayloadInit /\ ChatIdle /\ QueueIdle

SpecPayload == InitPayload /\ [][PayloadNext]_vars

(***************************************************************************)
(* Start: the loop that pops the queue and launches a processMessage       *)
(* goroutine for each message, with the listeners pushing and the context  *)
(* being cancelled meanwhile.  A task is followed through the points where *)
(* processMessage blocks: the Chat calls and the sends.                    *)
(***************************************************************************)
\* the most messages the listeners push before they stop
MaxTasks == 2

CauseCanceled ==
  <<"c","o","n","t","e","x","t"," ","c","a","n","c","e","l","e","d">>

LoopMessages == {LarkMessage(ChatHandle, UserHandle, TextOk)}

\* what the network does with a request whose context is live
LoopExchanges ==
  {SendFails(CauseTimeout), Responds(StatusOK, <<>>, <<Event(TextHi, <<>>), Blank>>, FALSE)}

\* the request is made with http.NewRequestWithContext(ctx, ...), ctx being the
\* context Start was given: once it is done, Do returns its error, and so does
\* a read of the body
Aborted == {SendFails(CauseCanceled)}

\* go p.processMessage(ctx, msg)
Launched(m) ==
  [msg |-> m, phase |-> "Dequeued", backend |-> "none", agentReq |-> NoRequest,
   agentResp |-> NilResponse, err |-> NoError, responseMsg |-> NoMessage,
   ended |-> "none", outcome |-> "none"]

\* a listener pushes a message
Produce(m) ==
  /\ Len(tasks) + Len(ch) < MaxTasks
  /\ Push(m)

\* the select at the top of the loop: ctx.Done() or, by default, the call of Pop
LoopSelect ==
  /\ loop.at = "select"
  /\ loop' = IF ctx = "done" THEN [at |-> "returned", err |-> Errorf(CauseCanceled)]
             ELSE [at |-> "pop", err |-> NoError]
  /\ UNCHANGED <<pipeVars, convVars, chatVars, queueVars, tasks, finished>>

\* the loop calling processMessage itself, not in a goroutine: the next Pop
\* waits for it to return
LoopPopMessageInline ==
  /\ loop.at = "pop"
  /\ ch # <<>>
  /\ \A i \in DOMAIN tasks : tasks[i].phase = "Dispatched"
  /\ popped' = [done |-> TRUE, op |-> "Pop", msg |-> Head(ch), ok |-> TRUE]
  /\ ch' = Tail(ch)
  /\ tasks' = Append(tasks, Launched(Head(ch)))
  /\ loop' = [at |-> "select", err |-> NoError]
  /\ UNCHANGED <<pipeVars, convVars, chatVars, ctx, pushed, finished>>

\* Pop returns a message and the loop launches its task
LoopPopMessage ==
  /\ loop.at = "pop"
  /\ ch # <<>>
  /\ popped' = [done |-> TRUE, op |-> "Pop", msg |-> Head(ch), ok |-> TRUE]
  /\ ch' = Tail(ch)
  /\ tasks' = Append(tasks, Launched(Head(ch)))
  /\ loop' = [at |-> "select", err |-> NoError]
  /\ UNCHANGED <<pipeVars, convVars, chatVars, ctx, pushed, finished>>

\* Pop waiting for a message only
LoopPopNeverCancelled ==
  /\ FALSE
  /\ UNCHANGED vars

\* Pop returns ctx.Err() and the loop returns it
LoopPopCancelled ==
  /\ loop.at = "pop"
  /\ ctx = "done"
  /\ popped' = [done |-> TRUE, op |-> "Pop", msg |-> NoMessage, ok |-> FALSE]
  /\ loop' = [at |-> "returned", err |-> Errorf(CauseCanceled)]
  /\ UNCHANGED <<pipeVars, convVars, chatVars, ch, ctx, pushed, tasks, finished>>

\* processMessage up to its first Chat call
TaskInvoke(i) ==
  /\ tasks[i].phase = "Dequeued"
  /\ LET m == NormalizeContent(tasks[i].msg)
         first == IF cfg.dify THEN "dify" ELSE IF cfg.coze THEN "coze" ELSE "none"
     IN tasks' = [tasks EXCEPT ![i].msg = m,
                               ![i].agentReq = ToAgentRequest(m),
                               ![i].backend = first,
                               ![i].phase = IF first = "none" THEN "AgentInvoked" ELSE "InAgent"]
  /\ UNCHANGED <<pipeVars, convVars, chatVars, queueVars, loop, finished>>

\* how a Chat call ended
EndOf(http) ==
  IF http \in Aborted THEN "canceled"
  ELSE IF http.send = "fail" THEN "timeout"
  ELSE "completed"

\* the task returned
Returned(i) == Append(finished, i)

\* a task that returned: its locals are gone
Gone(t, how) ==
  [Launched(t.msg) EXCEPT !.phase = "Dispatched", !.ended = t.ended, !.outcome = how]

\* processMessage from the error branch to the sender lookup, on task t
TaskReplied(t) ==
  LET resp == ReplyTo(t.agentResp, t.err)
      reply == FromAgentResponse(resp, t.msg)
      r == Reconciled(resp, t.msg, reply.msg)
      found == Lookup(senders, t.msg.Platform).ok
  IN IF reply.panic THEN [t EXCEPT !.phase = "panic"]
     ELSE IF found
          THEN [t EXCEPT !.msg = r.msg, !.agentResp = r.agentResp,
                         !.responseMsg = r.responseMsg, !.phase = "InSend"]
          ELSE Gone([t EXCEPT !.msg = r.msg], "nosender")

\* a Chat call returns: after a failed Dify call the task calls Coze, otherwise
\* it goes on to the send
TaskAgentReturns(i) ==
  /\ tasks[i].phase = "InAgent"
  /\ \E http \in LoopExchanges \cup (IF ctx = "done" THEN Aborted ELSE {}) :
       LET t == tasks[i]
           r == IF t.backend = "dify" THEN DifyChat(<<>>, t.agentReq, http)
                ELSE CozeChat(<<>>, <<"b">>, t.agentReq, http)
           called == [t EXCEPT !.agentReq = r.req, !.agentResp = r.resp, !.err = r.err,
                               !.ended = IF t.ended = "canceled" THEN t.ended ELSE EndOf(http)]
       IN IF t.backend = "dify" /\ TriesCoze(r.err)
          THEN /\ tasks' = [tasks EXCEPT ![i] = [called EXCEPT !.backend = "coze"]]
               /\ UNCHANGED finished
          ELSE /\ tasks' = [tasks EXCEPT ![i] = TaskReplied(called)]
               /\ finished' = IF TaskReplied(called).phase = "Dispatched" THEN Returned(i)
                              ELSE finished
  /\ UNCHANGED <<pipeVars, convVars, chatVars, queueVars, loop>>

\* sendToPlatform returns, with or without an error
TaskSendReturns(i) ==
  /\ tasks[i].phase = "InSend"
  /\ \E sent \in BOOLEAN :
       tasks' = [tasks EXCEPT ![i] = Gone(@, IF sent THEN "success" ELSE "failed")]
  /\ finished' = Returned(i)
  /\ UNCHANGED <<pipeVars, convVars, chatVars, queueVars, loop>>

LoopStep == LoopSelect \/ LoopPopMessage \/ LoopPopCancelled

LoopNext ==
  \/ \E m \in LoopMessages : Produce(m)
  \/ Cancel
  \/ LoopSelect
  \/ LoopPopMessage
  \/ LoopPopCancelled
  \/ \E i \in DOMAIN tasks : TaskInvoke(i)
  \/ \E i \in DOMAIN tasks : TaskAgentReturns(i)
  \/ \E i \in DOMAIN tasks : TaskSendReturns(i)

\* a pipeline built with both backends, after the adapters registered their
\* senders
PipeStarted ==
  /\ cfg = [dify |-> TRUE, coze |-> TRUE]
  /\ difyAgent = cfg.dify
  /\ cozeAgent = cfg.coze
  /\ senders = Senders
  /\ pc = "idle"
  /\ msg = NoMessage
  /\ agentReq = NoRequest
  /\ agentResp = NilResponse
  /\ err = NoError
  /\ responseMsg = NoMessage
  /\ outcome = "none"
  /\ dequeued = NoMessage
  /\ calls = <<>>
  /\ sends = <<>>
  /\ issued = [s \in Sessions |-> <<>>]
  /\ turns = 0

InitLoop == PipeStarted /\ ConvIdle /\ ChatIdle /\ QueueIdle

SpecLoop == InitLoop /\ [][LoopNext]_vars

\* the goroutine of Start is scheduled as long as it can take a step
SpecLoopFair == SpecLoop /\ WF_vars(LoopStep)

(***************************************************************************)
(* Properties of the pipeline                                              *)
(***************************************************************************)
HexDigit == HexLower \cup {"A", "B", "C", "D", "E", "F"}

\* the canonical 8-4-4-4-12 hexadecimal form, stated on the positions of a string
IsCanonicalUUID(s) ==
  /\ Len(s) = 36
  /\ \A i \in 1..36 : IF i \in {9, 14, 19, 24} THEN s[i] = "-" ELSE s[i] \in HexDigit

\* the conversation_id entry of a message: whether it is there, and its value
ConvIdOf(m) ==
  <<MapHas(m.Metadata, "conversation_id"), MapGet(m.Metadata, "conversation_id")>>

Replied == pc \in {"ResponseConverted", "IdentityReconciled", "Dispatched"}

AfterIdentity == pc \in {"IdentityReconciled", "Dispatched"}

AllCallsFailed == calls # <<>> /\ \A i \in DOMAIN calls : ~calls[i].err.isNil

LastCall == calls[Len(calls)]

\* C1: when every backend processMessage calls returns an error, the reply handed to
\* the sender is the error summary with the reason of the last failure, and the
\* conversation_id of the inbound message and of the reply are what they were
C1_AllFailedErrorReply ==
  (Replied /\ AllCallsFailed) =>
    /\ responseMsg.Content = ErrPrefix \o LastCall.err.text
    /\ Len(LastCall.err.text) > 0
    /\ ConvIdOf(msg) = ConvIdOf(dequeued)
    /\ ~MapHas(responseMsg.Metadata, "conversation_id")
    /\ \A i \in DOMAIN sends : sends[i].content = responseMsg.Content

C1_Witness ==
  /\ pc = "Dispatched"
  /\ AllCallsFailed
  /\ Len(calls) = 2
  /\ sends # <<>>
  /\ MapHas(dequeued.Metadata, "conversation_id")

\* C2: with both backends disabled processMessage does not crash and the reply is a
\* synthesized error summary
C2_NoBackendStillReplies ==
  (~cfg.dify /\ ~cfg.coze /\ pc \notin {"idle", "Dequeued", "Normalized", "Converted",
                                         "AgentInvoked"}) =>
    (pc # "panic" /\ HasPrefix(responseMsg.Content, ErrPrefix))

\* C3: when the primary fails and the secondary succeeds, the content of the reply
\* is the secondary's content, with no synthesized error text
C3_FallbackReply ==
  (Replied /\ Len(calls) = 2 /\ ~calls[1].err.isNil /\ calls[2].err.isNil) =>
    /\ responseMsg.Content = calls[2].resp.Content
    /\ ~HasPrefix(responseMsg.Content, ErrPrefix)
    /\ \A i \in DOMAIN sends : ~HasPrefix(sends[i].content, ErrPrefix)
    /\ sends # <<>> => HasPrefix(responseMsg.Content, sends[1].content)

C3_Witness ==
  /\ pc = "Dispatched"
  /\ Len(calls) = 2
  /\ ~calls[1].err.isNil
  /\ calls[2].err.isNil
  /\ outcome = "success"

\* C4: per message the primary is called at most once, the secondary at most once,
\* only after the primary returned an error and only if it is enabled, with the
\* request the primary received; there are at most two calls
C4_OneShotFallback ==
  /\ Len(calls) <= 2
  /\ \A i, j \in DOMAIN calls : calls[i].backend = calls[j].backend => i = j
  /\ calls # <<>> => calls[1].backend = (IF cfg.dify THEN "dify" ELSE "coze")
  /\ Len(calls) = 2 =>
       /\ calls[2].backend = "coze"
       /\ ~calls[1].err.isNil
       /\ cfg.coze
       /\ calls[2].req = calls[1].req

C4_Witness == Len(calls) = 2 /\ MapHas(calls[2].req.Metadata, "conversation_id")

HeldInvalid ==
  /\ MapHas(dequeued.Metadata, "conversation_id")
  /\ ~IsCanonicalUUID(MapGet(dequeued.Metadata, "conversation_id"))

\* C7: an inbound conversation_id that fails the validity check is no longer in the
\* message's metadata once the message is processed, whatever the agent outcome
C7_InvalidIdPurged ==
  (AfterIdentity /\ HeldInvalid) => ConvIdOf(msg) # ConvIdOf(dequeued)

\* C8: after the identity step, a non-empty conversation_id of the agent response
\* that satisfies the rule is in the metadata of the inbound message and of the
\* reply; one that does not satisfy it leaves neither with a conversation_id
C8_IdentityReconciled ==
  (AfterIdentity /\ calls # <<>> /\ LastCall.err.isNil) =>
    LET cid == MapGet(LastCall.resp.Metadata, "conversation_id") IN
    cid # <<>> =>
      IF IsCanonicalUUID(cid)
      THEN ConvIdOf(msg) = <<TRUE, cid>> /\ ConvIdOf(responseMsg) = <<TRUE, cid>>
      ELSE /\ ~MapHas(msg.Metadata, "conversation_id")
           /\ ~MapHas(responseMsg.Metadata, "conversation_id")

C8_Witness ==
  /\ AfterIdentity
  /\ calls # <<>>
  /\ LastCall.err.isNil
  /\ MapGet(LastCall.resp.Metadata, "conversation_id") = NotAUuid
  /\ MapHas(dequeued.Metadata, "conversation_id")

\* C9: once a turn on a session ended with a valid identifier issued, the request
\* built for a later message on that session carries the identifier
C9_IdentifierEchoed ==
  (pc = "Converted" /\ issued[msg.SessionID] # <<>>) =>
    ConvIdOf(agentReq) = <<TRUE, issued[msg.SessionID]>>

(***************************************************************************)
(* Properties of the converter                                             *)
(***************************************************************************)
\* C5: the metadata of the request ToAgentRequest returns has a conversation_id
\* exactly when the message's metadata holds one of the canonical 8-4-4-4-12
\* hexadecimal form, and then it is the message's value unchanged
C5_ConversationIdFiltered ==
  convOut.op = "ToAgentRequest" =>
    LET held == MapGet(convIn.Metadata, "conversation_id") IN
    /\ MapHas(convOut.req.Metadata, "conversation_id")
         <=> (MapHas(convIn.Metadata, "conversation_id") /\ IsCanonicalUUID(held))
    /\ MapHas(convOut.req.Metadata, "conversation_id")
         => MapGet(convOut.req.Metadata, "conversation_id") = held

C5_Witness ==
  /\ convOut.op = "ToAgentRequest"
  /\ MapGet(convIn.Metadata, "conversation_id") = NotAUuid
  /\ ~MapHas(convOut.req.Metadata, "conversation_id")

\* C6: the payload built for either backend has a conversation_id only when it is
\* the validated identifier carried in the request metadata; the session handle
\* is never forwarded as the continuation identifier
C6_OnlyIssuedIdForwarded ==
  (convOut.op \in {"BuildDifyRequest", "BuildCozeRequest"}
     /\ "conversation_id" \in DOMAIN convOut.payload) =>
    /\ MapHas(convOut.req.Metadata, "conversation_id")
    /\ convOut.payload["conversation_id"] = MapGet(convOut.req.Metadata, "conversation_id")
    /\ IsCanonicalUUID(convOut.payload["conversation_id"])

(***************************************************************************)
(* Properties of the payloads                                              *)
(***************************************************************************)
PayloadBuilt == convOut.op \in {"BuildDifyRequest", "BuildCozeRequest"}

\* a reference to a remote image
IsRemoteURL(ref) == HasPrefix(ref, HttpPrefix)

\* the image entries of a payload: Dify's files, or the image parts of the
\* content Coze's current turn holds as object_string
ImageEntries(payload) ==
  IF "files" \in DOMAIN payload THEN payload.files
  ELSE IF "additional_messages" \notin DOMAIN payload THEN <<>>
  ELSE LET multimodal == SelectSeq(payload.additional_messages,
                                   LAMBDA t : t.content_type = "object_string")
       IN IF Len(multimodal) = 0 THEN <<>>
          ELSE SelectSeq(multimodal[Len(multimodal)].content.json,
                         LAMBDA part : part.type = "image")

\* the strings an image entry holds
StringsOf(entry) ==
  {entry[f] : f \in DOMAIN entry \cap {"url", "base64", "base64_data"}}

\* C27: the payload posted to either backend holds no base64 image data: every
\* string of an image entry is a remote URL, and a reference of the request that
\* is no remote URL is in no entry
C27_NoRawBase64InPayload ==
  PayloadBuilt =>
    \A i \in DOMAIN ImageEntries(convOut.payload) :
      \A str \in StringsOf(ImageEntries(convOut.payload)[i]) : IsRemoteURL(str)

\* the turns a payload holds: Coze's additional_messages; no field of the
\* payload BuildDifyRequest builds holds a turn
TurnsOf(payload) ==
  IF "additional_messages" \in DOMAIN payload THEN payload.additional_messages ELSE <<>>

\* the current turn is in the payload: Dify's query, or the last of Coze's
\* messages when the request has a text or an image
CurrentTurnLast(req, payload) ==
  IF "additional_messages" \in DOMAIN payload
  THEN (req.Query # <<>> \/ req.ImageURLs # <<>>) =>
         /\ Len(payload.additional_messages) = Len(req.Contexts) + 1
         /\ payload.additional_messages[Len(payload.additional_messages)].role = "user"
  ELSE payload.query = req.Query

\* C28: for each backend, the prior turns of the request are in the payload, all
\* of them and in their order, ahead of the current turn, and the request has
\* the contexts it had before the payload was built
C28_PriorTurnsPrepended ==
  (PayloadBuilt /\ convIn.Contexts # <<>>) =>
    /\ HasPrefix(TurnsOf(convOut.payload), convIn.Contexts)
    /\ CurrentTurnLast(convIn, convOut.payload)
    /\ convOut.req.Contexts = convIn.Contexts

(***************************************************************************)
(* Properties of Chat                                                      *)
(***************************************************************************)
\* C10: for both backends, when the body ends by the sentinel or by end of file
\* without a read error, Chat returns a response whose content is not empty: the
\* fallback text if no text was accumulated
C10_NeverEmptyResponse ==
  (chatOut.returned /\ (asm.broke \/ bodyEnd = "eof")) =>
    /\ chatOut.err.isNil
    /\ ~chatOut.resp.isNil
    /\ Len(chatOut.resp.Content) > 0
    /\ asm.fullResponse = <<>> => chatOut.resp.Content = FallbackText
    /\ asm.fullResponse # <<>> => chatOut.resp.Content = asm.fullResponse

C10_Witness ==
  /\ chatOut.returned
  /\ backend = "coze"
  /\ asm.fullResponse = <<>>
  /\ asm.conversationID # <<>>
  /\ chatOut.resp.Content = FallbackText

\* the lines of a body before its sentinel
BeforeDone(b) ==
  LET dones == {i \in 1..Len(b) : b[i].kind = "done"}
  IN IF dones = {} THEN b ELSE SubSeq(b, 1, (CHOOSE i \in dones : \A j \in dones : i <= j) - 1)

IsData(line) == line.kind \in {"json", "bad"}

\* every data line of the body is followed by a blank line
Flushed(b) == \A i \in 1..Len(b) : IsData(b[i]) => (i < Len(b) /\ b[i + 1].kind = "blank")

HasId(line, key) == line.kind = "json" /\ IsStr(line.obj, key) /\ line.obj[key].v # <<>>

\* the non-empty identifiers the events of a body carry under a key, in order
IdsOf(b, key) ==
  LET carrying == SelectSeq(BeforeDone(b), LAMBDA line : HasId(line, key))
  IN [i \in 1..Len(carrying) |-> carrying[i].obj[key].v]

\* an event carries an identifier that is the empty string
EmptyIdIn(b) ==
  \E i \in 1..Len(b) : \E key \in {"conversation_id", "message_id"} :
    b[i].kind = "json" /\ IsStr(b[i].obj, key) /\ b[i].obj[key].v = <<>>

ReturnedOk == chatOut.returned /\ chatOut.err.isNil

IsDelta(line) == IsObj(line.obj, "delta") /\ IsStr(line.obj["delta"].v, "content")

RECURSIVE DeltaText(_)
DeltaText(events) ==
  IF events = <<>> THEN <<>>
  ELSE Head(events).obj["delta"].v["content"].v \o DeltaText(Tail(events))

\* the events of the body are deltas and then one event with the whole text
DeltasThenFull(b) ==
  LET events == SelectSeq(BeforeDone(b), LAMBDA line : line.kind = "json")
      n == Len(events)
  IN /\ n >= 2
     /\ \A i \in 1..(n - 1) : IsDelta(events[i])
     /\ ~IsDelta(events[n])
     /\ IsStr(events[n].obj, "content")
     /\ events[n].obj["content"].v = DeltaText(SubSeq(events, 1, n - 1))

\* C22: the text Coze's Chat assembles from deltas followed by an event with
\* the whole content is the whole content, each piece counted once.
C22_FullContentCountedOnce ==
  (backend = "coze" /\ ReturnedOk /\ Flushed(body) /\ DeltasThenFull(body)) =>
    LET events == SelectSeq(BeforeDone(body), LAMBDA line : line.kind = "json")
    IN chatOut.resp.Content = events[Len(events)].obj["content"].v

\* C23: once an event carried a non-empty conversation or message identifier,
\* the response holds a non-empty identifier under that key, whatever empty
\* or absent identifiers later events carry.
C23_IdentifierNotCleared ==
  (ReturnedOk /\ Flushed(body)) =>
    \A key \in {"conversation_id", "message_id"} :
      IdsOf(body, key) # <<>> => MapGet(chatOut.resp.Metadata, key) # <<>>

\* C24: the conversation and message identifiers of the response are the
\* first non-empty ones of the stream, also when later events carry others.
C24_FirstIdentifierKept ==
  (ReturnedOk /\ Flushed(body) /\ ~EmptyIdIn(body)) =>
    \A key \in {"conversation_id", "message_id"} :
      IdsOf(body, key) # <<>> => MapGet(chatOut.resp.Metadata, key) = IdsOf(body, key)[1]

\* C25: what Chat returns for a body is what it returns for the body without
\* its undecodable data lines.
C25_BadFramesSkipped ==
  chatOut.returned =>
    LET decodable == SelectSeq(body, LAMBDA line : line.kind # "bad")
        r == ChatFinish(ScanAll(backend, ScanStart, decodable), bodyEnd = "readerr", CauseEOF)
    IN chatOut.resp = r.resp /\ chatOut.err = r.err

\* t is a piece of s
Within(t, s) == \E i \in 0..(Len(s) - Len(t)) : SubSeq(s, i + 1, i + Len(t)) = t

\* C35: in the response Coze's Chat assembles, the text of every decodable
\* data line before the sentinel is part of the content, and an identifier
\* carried by one of them is in the metadata, also for a data line that is
\* followed by the sentinel, by the end of the body or by another data line
\* instead of a blank line.
C35_NoFrameLost ==
  (backend = "coze" /\ ReturnedOk /\ ~EmptyIdIn(body)) =>
    /\ \A i \in DOMAIN BeforeDone(body) :
         body[i].kind = "json" =>
           Within(ParseCozeResponse(body[i].obj).Content, chatOut.resp.Content)
    /\ \A key \in {"conversation_id", "message_id"} :
         IdsOf(body, key) # <<>> => MapGet(chatOut.resp.Metadata, key) # <<>>

\* the exchange delivered a body whose read failed before any sentinel
ReadFailed(http) ==
  /\ http.send = "ok"
  /\ http.status = 200
  /\ http.readErr
  /\ \A i \in 1..Len(http.lines) : http.lines[i].kind # "done"

\* C26: a Chat call whose body fails to be read returns an error and no
\* response, whatever text the body had delivered; processMessage goes on to
\* the fallback backend if there is one, and replies with the error text if
\* the failed call was the last one.
C26_ReadFailureIsFatal ==
  \A i \in DOMAIN calls :
    ReadFailed(calls[i].http) =>
      /\ ~calls[i].err.isNil
      /\ calls[i].resp.isNil
      /\ HasPrefix(calls[i].err.text, ErrReadResponse)
      /\ (calls[i].backend = "dify" /\ cfg.coze /\ pc # "Fallback") => Len(calls) = 2
      /\ (Replied /\ i = Len(calls)) => responseMsg.Content = ErrPrefix \o calls[i].err.text

\* the read of a body that had delivered an answer failed in the only call,
\* and the error reply was sent
C26_Witness ==
  /\ pc = "Dispatched"
  /\ Len(calls) = 1
  /\ ReadFailed(calls[1].http)
  /\ \E k \in 1..Len(calls[1].http.lines) :
       calls[1].http.lines[k].kind = "json" /\ IsStr(calls[1].http.lines[k].obj, "answer")
  /\ HasPrefix(responseMsg.Content, ErrPrefix \o ErrReadResponse)
  /\ sends # <<>>

(***************************************************************************)
(* Properties of the dispatch                                              *)
(***************************************************************************)
\* the contents handed to SendMessage, in the order of the calls
Sent == [i \in 1..Len(sends) |-> sends[i].content]

\* the dispatch found a sender and called sendToPlatform
SenderFound == pc = "Dispatched" /\ outcome # "nosender"

\* C20: a text reply to WeCom is sent as the chunks of SplitLongText(content,
\* 2048), in chunk order, each at most once, and no chunk is sent after the
\* first send that fails; a reply to any other platform is one send of the
\* full content.
C20_ChunkedDispatch ==
  SenderFound =>
    IF msg.Platform = "wecom" /\ responseMsg.MessageType = "text"
    THEN LET chunks == SplitLongText(responseMsg.Content, 2048) IN
         /\ Len(sends) \in 1..Len(chunks)
         /\ Sent = SubSeq(chunks, 1, Len(sends))
         /\ \A i \in 1..(Len(sends) - 1) : sends[i].ok
         /\ Len(sends) < Len(chunks) => ~sends[Len(sends)].ok
         /\ outcome = "success" <=> (Len(sends) = Len(chunks) /\ sends[Len(sends)].ok)
    ELSE Sent = <<responseMsg.Content>>

\* a reply of three chunks to WeCom: the second send failed and the third
\* chunk was not sent
C20_Witness ==
  /\ SenderFound
  /\ msg.Platform = "wecom"
  /\ Len(SplitLongText(responseMsg.Content, 2048)) = 3
  /\ Len(sends) = 2
  /\ sends[1].ok
  /\ ~sends[2].ok
  /\ outcome = "failed"

\* C21: a dispatch that finds no sender registered for the message's platform
\* ends as failed and calls no sender, whichever senders are registered; a
\* dispatch that finds one sends through that sender only.
C21_SenderOfPlatformOnly ==
  [][(pc = "IdentityReconciled" /\ pc' = "Dispatched") =>
       IF msg.Platform \in DOMAIN senders
       THEN /\ sends' # <<>>
            /\ \A i \in DOMAIN sends' : sends'[i].sender = senders[msg.Platform]
       ELSE sends' = <<>> /\ outcome' = "nosender"]_vars

\* a Lark message was dropped while only the WeCom sender was registered
C21_Witness ==
  /\ pc = "Dispatched"
  /\ msg.Platform = "lark"
  /\ DOMAIN senders = {"wecom"}
  /\ outcome = "nosender"
  /\ sends = <<>>

(***************************************************************************)
(* Properties of the ingress queue                                         *)
(***************************************************************************)
\* C19: Push never blocks the producer: it can be taken in every state of the
\* queue; below capacity the message is appended, and on a full queue the
\* message is dropped and the contents and their order stay as they were.
C19_PushNeverBlocks ==
  /\ \A m \in QueueMessages : ENABLED Push(m)
  /\ Len(ch) <= QueueSize
  /\ pushed.done =>
       IF Len(pushed.before) < QueueSize
       THEN pushed.after = Append(pushed.before, pushed.msg)
       ELSE pushed.after = pushed.before

\* a push against a full queue has returned
C19_Witness ==
  /\ pushed.done
  /\ Len(pushed.before) = QueueSize
  /\ pushed.msg # pushed.before[QueueSize]
  /\ pushed.after = pushed.before

(***************************************************************************)
(* Properties of SplitLongText                                             *)
(***************************************************************************)
RECURSIVE Concat(_)
Concat(chunks) == IF chunks = <<>> THEN <<>> ELSE Head(chunks) \o Concat(Tail(chunks))

SplitDone == convOut.op = "SplitLongText"

\* the limit a call is made with, after the default
LimitOf(call) == IF call.maxLen <= 0 THEN 2048 ELSE call.maxLen

\* the offset in the text at which chunk k begins
RECURSIVE StartOf(_, _)
StartOf(chunks, k) == IF k = 1 THEN 0 ELSE StartOf(chunks, k - 1) + Len(chunks[k - 1])

\* C11: the chunks of SplitLongText, concatenated in order, are the text.
C11_ChunksReproduceText == SplitDone => Concat(convOut.chunks) = convIn.text

\* a text was cut in three at boundaries and the chunks were returned
C11_Witness ==
  /\ SplitDone
  /\ Len(convOut.chunks) >= 3
  /\ \E k \in 1..Len(convOut.chunks) : Len(convOut.chunks[k]) < LimitOf(convIn)
  /\ "." \in {convIn.text[i] : i \in 1..Len(convIn.text)}

\* the byte at offset i - 1 ends a boundary character of the text
EndsBoundary(text, i) ==
  \/ text[i] \in {"\n", ".", "!", "?"}
  \/ /\ i >= 3
     /\ SubSeq(text, i - 2, i) \in {IdeographicStop, FullwidthExclamation, FullwidthQuestion}

\* C12: a non-final chunk ends at the boundary character nearest to the right
\* edge of its window, when one lies between the midpoint and the right edge
\* of the window, and at the right edge of the window otherwise.
C12_CutsAtNearestBoundary ==
  SplitDone =>
    \A k \in 1..(Len(convOut.chunks) - 1) :
      LET start == StartOf(convOut.chunks, k)
          edge == start + LimitOf(convIn)
          marks == {i \in (start + (LimitOf(convIn) \div 2) + 1)..edge :
                      EndsBoundary(convIn.text, i)}
          end == start + Len(convOut.chunks[k])
      IN IF marks = {} THEN end = edge
         ELSE end = CHOOSE i \in marks : \A j \in marks : j <= i

\* C13: a text no longer than the limit comes back as the one chunk.
C13_ShortTextOneChunk ==
  (SplitDone /\ Len(convIn.text) <= convIn.maxLen) => convOut.chunks = <<convIn.text>>

\* the empty text, and a text exactly as long as the limit, came back whole
C13_Witness ==
  /\ SplitDone
  /\ Len(convIn.text) <= convIn.maxLen
  /\ convIn.text = <<>> \/ Len(convIn.text) = convIn.maxLen
  /\ convOut.chunks = <<convIn.text>>

\* C14: a text longer than the limit is cut into chunks that are non-empty and
\* at most the limit long, and a limit of zero or below gives the result of
\* the limit 2048.
C14_ChunksWithinLimit ==
  SplitDone =>
    /\ Len(convIn.text) > LimitOf(convIn) =>
         /\ Len(convOut.chunks) >= 2
         /\ \A k \in 1..Len(convOut.chunks) :
              Len(convOut.chunks[k]) \in 1..LimitOf(convIn)
    /\ convIn.maxLen <= 0 => convOut.chunks = SplitLongText(convIn.text, 2048)

\* a text longer than 2048 bytes was split under a limit below zero
C14_Witness ==
  /\ SplitDone
  /\ convIn.maxLen < 0
  /\ Len(convIn.text) > 2048
  /\ Len(convOut.chunks) >= 2

(***************************************************************************)
(* Properties of FromAgentResponse                                         *)
(***************************************************************************)
\* the references from the k-th on, with commas between them
RECURSIVE CommaJoined(_, _)
CommaJoined(urls, k) ==
  IF k = Len(urls) THEN urls[k] ELSE urls[k] \o <<",">> \o CommaJoined(urls, k + 1)

RECURSIVE Contents(_)
Contents(messages) ==
  IF messages = <<>> THEN <<>> ELSE Head(messages).Content \o Contents(Tail(messages))

\* the position of the first message whose metadata has the key
FirstWith(messages, key) ==
  CHOOSE i \in 1..Len(messages) :
    /\ key \in DOMAIN messages[i].Metadata.kv
    /\ \A j \in 1..(i - 1) : key \notin DOMAIN messages[j].Metadata.kv

\* C16: MergeMessages returns nothing for no message and the message itself
\* for one; for two or more it returns a text message with the contents of
\* the text messages in input order, the platform, sessionID and userID of
\* the first message, and for every metadata key the value of the first
\* message that has the key.
C16_MergedInOrder ==
  convOut.op = "MergeMessages" =>
    LET n == Len(convIn)
        out == convOut.msg
        keys == UNION {DOMAIN convIn[i].Metadata.kv : i \in 1..n}
    IN /\ convOut.isNil <=> n = 0
       /\ n = 1 => out = convIn[1]
       /\ n >= 2 =>
            /\ out.MessageType = "text"
            /\ out.Content = Contents(SelectSeq(convIn, LAMBDA m : m.MessageType = "text"))
            /\ out.Platform = convIn[1].Platform
            /\ out.SessionID = convIn[1].SessionID
            /\ out.UserID = convIn[1].UserID
            /\ DOMAIN out.Metadata.kv = keys
            /\ \A key \in keys : out.Metadata.kv[key] = convIn[FirstWith(convIn, key)].Metadata.kv[key]

\* text messages around an image message were merged, and a metadata key that
\* two of them carry with different values kept the first value
C16_Witness ==
  /\ convOut.op = "MergeMessages"
  /\ Len(convIn) = 3
  /\ convIn[1].MessageType = "text"
  /\ convIn[2].MessageType = "image"
  /\ convIn[3].MessageType = "text"
  /\ convOut.msg.Content = convIn[1].Content \o convIn[3].Content
  /\ MapHas(convIn[3].Metadata, "message_id")
  /\ MapGet(convIn[3].Metadata, "message_id") # MapGet(convIn[1].Metadata, "message_id")
  /\ MapGet(convOut.msg.Metadata, "message_id") = MapGet(convIn[1].Metadata, "message_id")

(***************************************************************************)
(* Properties of NormalizeContent and ToAgentRequest                       *)
(***************************************************************************)
Occurrences(s, c) == Cardinality({i \in 1..Len(s) : s[i] = c})

\* the CRLF pairs of s
Pairs(s) == Cardinality({i \in 1..(Len(s) - 1) : s[i] = "\r" /\ s[i + 1] = "\n"})

NotLineEnd(c) == c \notin {"\r", "\n"}

\* C17: after NormalizeContent the content of a text message has no leading
\* or trailing whitespace and no carriage return, each CRLF pair and each
\* lone CR having become one LF; the query of ToAgentRequest applied
\* afterwards is that content.
C17_TextNormalized ==
  (convOut.normalized /\ convIn.MessageType = "text") =>
    LET c == convOut.msg.Content
        t == TrimSpace(convIn.Content)
    IN /\ LeadingSpace(c) = 0
       /\ TrailingSpace(c) = 0
       /\ Occurrences(c, "\r") = 0
       /\ Occurrences(c, "\n") = Occurrences(t, "\r") + Occurrences(t, "\n") - Pairs(t)
       /\ SelectSeq(c, NotLineEnd) = SelectSeq(t, NotLineEnd)
       /\ convOut.op = "ToAgentRequest" => convOut.req.Query = c

\* "  hello\r\nworld  " became the query "hello\nworld"
C17_Witness ==
  /\ convOut.op = "ToAgentRequest"
  /\ convOut.normalized
  /\ convIn.MessageType = "text"
  /\ convIn.Content = TextHello
  /\ convOut.req.Query = <<"h", "e", "l", "l", "o", "\n", "w", "o", "r", "l", "d">>

\* data:image/...;base64,<payload> with a payload free of commas
IsDataUri(content) ==
  /\ HasPrefix(content, DataImagePrefix)
  /\ Occurrences(content, ",") = 1
  /\ \E i \in 1..Len(content) :
       content[i] = "," /\ HasSuffix(SubSeq(content, 1, i), <<";", "b", "a", "s", "e", "6", "4", ",">>)

PayloadOf(content) ==
  LET i == CHOOSE i \in 1..Len(content) : content[i] = "," IN SubSeq(content, i + 1, Len(content))

\* longer than 100 bytes, and neither a URL nor a data URI by its first bytes
IsLongOpaque(content) ==
  /\ Len(content) > 100
  /\ ~HasPrefix(content, HttpPrefix)
  /\ ~HasPrefix(content, DataImagePrefix)

\* standard base64 with padding: whole groups of four characters of the
\* alphabet, the last one ending in at most two "="
IsStdBase64(s) ==
  /\ Len(s) % 4 = 0
  /\ \E pad \in 0..2 :
       /\ pad <= Len(s)
       /\ \A i \in 1..Len(s) :
            IF i > Len(s) - pad THEN s[i] = "=" ELSE s[i] \in Base64Alphabet

Converted == convOut.op = "ToAgentRequest" /\ convOut.msg.MessageType = "image"

\* C18 as stated: for an image message, a data URI gives its payload, a long
\* opaque string gives the content itself as bare base64, and a content
\* starting with http gives the content itself.
C18_ImageClassified ==
  Converted =>
    LET c == convOut.msg.Content IN
    /\ IsDataUri(c) => convOut.req.ImageURLs = <<PayloadOf(c)>>
    /\ IsLongOpaque(c) => convOut.req.ImageURLs = <<c>>
    /\ HasPrefix(c, HttpPrefix) => convOut.req.ImageURLs = <<c>>

\* C18 as amended: a long opaque string gives the content itself when it
\* decodes as standard base64, and no image reference when it does not.
C18_ImageClassifiedDecodable ==
  Converted =>
    LET c == convOut.msg.Content IN
    /\ IsDataUri(c) => convOut.req.ImageURLs = <<PayloadOf(c)>>
    /\ (IsLongOpaque(c) /\ IsStdBase64(c)) => convOut.req.ImageURLs = <<c>>
    /\ (IsLongOpaque(c) /\ ~IsStdBase64(c)) => convOut.req.ImageURLs = <<>>
    /\ HasPrefix(c, HttpPrefix) => convOut.req.ImageURLs = <<c>>

\* a long string that is no base64 was converted, and gave no image reference
C18_Witness ==
  /\ Converted
  /\ IsLongOpaque(convOut.msg.Content)
  /\ ~IsStdBase64(convOut.msg.Content)
  /\ convOut.req.ImageURLs = <<>>

(***************************************************************************)
(* Properties of ToAgentRequest on image handles and unusable contents     *)
(***************************************************************************)
Requested == convOut.op = "ToAgentRequest"

\* C29: when the metadata of the message holds image_key or media_id, the
\* metadata of the request ToAgentRequest returns holds the handle under the
\* same key, and a platform entry that is the platform of the message
C29_ImageHandleCarried ==
  Requested =>
    \A key \in {"image_key", "media_id"} :
      MapHas(convOut.msg.Metadata, key) =>
        /\ MapHas(convOut.req.Metadata, key)
        /\ MapGet(convOut.req.Metadata, key) = MapGet(convOut.msg.Metadata, key)
        /\ MapHas(convOut.req.Metadata, "platform")
        /\ convOut.req.Metadata.kv["platform"] = convOut.msg.Platform

\* a content of no shape an image has: it starts neither as a URL nor as a data
\* URI, and is no base64 string above the length for one
NoImageShape(content) ==
  /\ ~HasPrefix(content, HttpPrefix)
  /\ ~HasPrefix(content, DataImagePrefix)
  /\ ~(Len(content) > 100 /\ IsStdBase64(content))

\* C30: for an image message whose content has no shape an image has,
\* ToAgentRequest returns a request without an image reference, whose query,
\* sessionID and userID are the content, sessionID and userID of the message
C30_UnusableImageIsTextOnly ==
  (Converted /\ NoImageShape(convOut.msg.Content)) =>
    /\ convOut.req.ImageURLs = <<>>
    /\ convOut.req.Query = convOut.msg.Content
    /\ convOut.req.SessionID = convOut.msg.SessionID
    /\ convOut.req.UserID = convOut.msg.UserID

\* a short opaque string gave a text-only request
C30_Witness ==
  /\ Converted
  /\ ~convOut.normalized
  /\ convOut.msg.Content = Repeat("A", 4)
  /\ NoImageShape(convOut.msg.Content)
  /\ convOut.req.ImageURLs = <<>>
  /\ convOut.req.Query = convOut.msg.Content
  /\ convOut.req.SessionID = ChatHandle

(***************************************************************************)
(* Properties of Start                                                     *)
(***************************************************************************)
LoopReturned == loop.at = "returned"

\* the call of Pop returns in this step
PopReturns == loop.at = "pop" /\ loop'.at # "pop"

\* Pop returns the oldest message of the queue, and Start launches its task
PopGaveMessage ==
  /\ ch # <<>>
  /\ popped'.ok /\ popped'.msg = Head(ch)
  /\ ch' = Tail(ch)
  /\ Len(tasks') = Len(tasks) + 1
  /\ loop'.at = "select"

\* Pop returns the error of the cancelled context, and Start returns it
PopGaveCancellation ==
  /\ ctx = "done"
  /\ ~popped'.ok
  /\ ch' = ch /\ tasks' = tasks
  /\ loop' = [at |-> "returned", err |-> Errorf(CauseCanceled)]

\* C31: Pop returns a message only when the queue holds one, and without one it
\* returns only once the context is cancelled; after the cancellation Start
\* eventually returns the cancellation error; once Start has seen the
\* cancellation no message leaves the queue and no task is launched
C31_CancellationStopsLoop ==
  /\ [][PopReturns => (PopGaveMessage \/ PopGaveCancellation)]_vars
  /\ [][(loop.at = "pop" /\ ch = <<>> /\ ctx = "live") => loop'.at = "pop"]_vars
  /\ [][LoopReturned => (loop' = loop /\ Len(tasks') = Len(tasks) /\ Len(ch') >= Len(ch))]_vars
  /\ (ctx = "done") ~> (LoopReturned /\ loop.err = Errorf(CauseCanceled))

\* Start returned the cancellation error with a message still in the queue,
\* after a message was handed to processing
C31_Witness ==
  /\ LoopReturned
  /\ loop.err = Errorf(CauseCanceled)
  /\ ctx = "done"
  /\ ch # <<>>
  /\ tasks # <<>>

\* C32: no Chat call of a task is ended by the cancellation of the pipeline's
\* context: it ends by completing or by its timeout
C32_InFlightNotCancelled ==
  \A i \in DOMAIN tasks : tasks[i].ended \in {"none", "completed", "timeout"}

\* a task waits on its agent or on its sender
Waiting(i) == tasks[i].phase \in {"InAgent", "InSend"}

\* C33: while a task waits on its agent or its sender, Start goes on: it can
\* take the next message off the queue and launch its task, whatever the
\* earlier tasks are doing
C33_DequeueNotBlocked ==
  /\ (loop.at = "pop" /\ ch # <<>>) => ENABLED LoopPopMessage
  /\ loop.at = "select" => ENABLED LoopSelect

\* the second task returned while the first one was still waiting on its agent
C33_Witness ==
  /\ Len(tasks) = 2
  /\ finished = <<2>>
  /\ tasks[1].phase = "InAgent"
  /\ tasks[2].phase = "Dispatched"

(***************************************************************************)
(* Properties of the steps of processMessage                               *)
(***************************************************************************)
\* the place of a state in the order of the steps; the fallback call is part
\* of the agent invocation
StepOf ==
  [Dequeued |-> 1, Normalized |-> 2, Converted |-> 3, Fallback |-> 3, AgentInvoked |-> 4,
   ResponseConverted |-> 5, IdentityReconciled |-> 6, Dispatched |-> 7]

\* the next message is dequeued
NextMessage == pc \in {"idle", "Dispatched"} /\ pc' = "Dequeued" /\ turns' = turns + 1

\* the message moves to the next state of the order; a task that panics ends
OneStepOn ==
  \/ pc \in DOMAIN StepOf /\ pc' \in DOMAIN StepOf /\ StepOf[pc'] = StepOf[pc] + 1
  \/ pc = "Converted" /\ pc' = "Fallback"
  \/ pc \in DOMAIN StepOf /\ pc' = "panic"

\* C34: a message goes through Dequeued, Normalized, Converted, AgentInvoked,
\* ResponseConverted, IdentityReconciled and Dispatched in this order, one
\* state at a time; a send is made only in the step from IdentityReconciled to
\* Dispatched, after every Chat call of the message; and once Dispatched
\* nothing of the message changes and it is not put back in the queue
C34_StepsInOrder ==
  /\ [][pc' # pc => (OneStepOn \/ NextMessage)]_vars
  /\ [][(sends' # sends /\ ~NextMessage) =>
          (pc = "IdentityReconciled" /\ pc' = "Dispatched" /\ calls' = calls)]_vars
  /\ [][(calls' # calls /\ ~NextMessage) => (sends = <<>> /\ StepOf[pc] = 3)]_vars
  /\ [][(pc = "Dispatched" /\ ~NextMessage) =>
          (UNCHANGED <<pc, msg, responseMsg, calls, sends, outcome, ch>>)]_vars

\* a message that went through the fallback call was dispatched
C34_Witness ==
  /\ pc = "Dispatched"
  /\ Len(calls) = 2
  /\ sends # <<>>
  /\ outcome = "failed"

(***************************************************************************)
(* Properties of SplitLongText on multi-byte text                          *)
(***************************************************************************)
\* the bytes 0x80 to 0xBF, which continue a character
ContinuationBytes ==
  {"x80", "x81", "x82", "x83", "x84", "x85", "x86", "x87", "x88", "x89", "x8A", "x8B", "x8C",
   "x8D", "x8E", "x8F", "x90", "x91", "x92", "x93", "x94", "x95", "x96", "x97", "x98", "x99",
   "x9A", "x9B", "x9C", "x9D", "x9E", "x9F", "xA0", "xA1", "xA2", "xA3", "xA4", "xA5", "xA6",
   "xA7", "xA8", "xA9", "xAA", "xAB", "xAC", "xAD", "xAE", "xAF", "xB0", "xB1", "xB2", "xB3",
   "xB4", "xB5", "xB6", "xB7", "xB8", "xB9", "xBA", "xBB", "xBC", "xBD", "xBE", "xBF"}

\* the bytes that start a character of two, three and four bytes
LeadBytes2 ==
  {"xC2", "xC3", "xC4", "xC5", "xC6", "xC7", "xC8", "xC9", "xCA", "xCB", "xCC", "xCD", "xCE",
   "xCF", "xD0", "xD1", "xD2", "xD3", "xD4", "xD5", "xD6", "xD7", "xD8", "xD9", "xDA", "xDB",
   "xDC", "xDD", "xDE", "xDF"}

LeadBytes3 ==
  {"xE0", "xE1", "xE2", "xE3", "xE4", "xE5", "xE6", "xE7", "xE8", "xE9", "xEA", "xEB", "xEC",
   "xED", "xEE", "xEF"}

LeadBytes4 ==
  {"xF0", "xF1", "xF2", "xF3", "xF4"}

\* the bytes of the character that starts with byte b
WidthOf(b) ==
  IF b \in LeadBytes2 THEN 2 ELSE IF b \in LeadBytes3 THEN 3 ELSE IF b \in LeadBytes4 THEN 4
  ELSE 1

\* s is whole characters: every lead byte is followed by its continuation
\* bytes, and every continuation byte belongs to the lead byte before it
WholeCharacters(s) ==
  \A i \in DOMAIN s :
    IF s[i] \in ContinuationBytes
    THEN \E j \in 1..(i - 1) :
           /\ i - j < WidthOf(s[j])
           /\ \A k \in (j + 1)..i : s[k] \in ContinuationBytes
    ELSE /\ i + WidthOf(s[i]) - 1 <= Len(s)
         /\ \A k \in (i + 1)..(i + WidthOf(s[i]) - 1) : s[k] \in ContinuationBytes

\* C36: the chunks SplitLongText returns for a text of whole characters are of
\* whole characters: no cut falls inside a multi-byte character.
C36_NoCutInsideCharacter ==
  (SplitDone /\ WholeCharacters(convIn.text)) =>
    \A i \in DOMAIN convOut.chunks : WholeCharacters(convOut.chunks[i])

(***************************************************************************)
(* Properties of the queue under concurrent use                            *)
(***************************************************************************)
\* a Push returns in this step, and a Pop or TryPop
PushStep == \E m \in QueueMessages : Push(m)

PopStep == PopMessage \/ PopCancelled \/ TryPop

\* the message of the Push was accepted: it is the newest of the queue
Accepted == Len(ch) < QueueSize /\ ch' = Append(ch, pushed'.msg)

\* the Push left the queue as it was
Rejected == Len(ch) = QueueSize /\ ch' = ch

\* the call returned the oldest message and took it off the queue
GaveOldest == ch # <<>> /\ popped'.ok /\ popped'.msg = Head(ch) /\ ch' = Tail(ch)

\* the call returned no message and left the queue as it was
GaveNone == ~popped'.ok /\ popped'.msg = NoMessage /\ ch' = ch

\* C37: whatever the order in which producers and consumers act, the queue
\* holds at most its capacity; a message leaves the queue only as the result
\* of a Pop or TryPop, which returns the oldest one and removes it, so that
\* accepted messages are returned once each and in the order of acceptance
C37_QueueIsFifo ==
  /\ [](Len(ch) <= QueueSize)
  /\ [][PushStep => (Accepted \/ Rejected)]_vars
  /\ [][PopStep => (GaveOldest \/ GaveNone)]_vars
  /\ [][(ch' # ch) => (PushStep /\ Accepted) \/ (PopStep /\ GaveOldest)]_vars

\* a full queue of two different messages gave up its oldest one
C37_Witness ==
  /\ pushed.done /\ Len(pushed.after) = QueueSize
  /\ popped.ok
  /\ Len(ch) = QueueSize - 1
  /\ ch = Tail(pushed.after)
  /\ popped.msg = pushed.after[1]
  /\ popped.msg # ch[1]

(***************************************************************************)
(* Properties of NormalizeContent followed by ToAgentRequest               *)
(***************************************************************************)
\* an image message whose content is bare standard base64 of more than 100
\* characters
BareBase64Image(m) ==
  /\ m.MessageType = "image"
  /\ Len(m.Content) > 100
  /\ IsStdBase64(m.Content)

\* C38: an image message of bare standard base64 longer than 100 characters,
\* normalized and then converted, gives exactly its original content as the
\* one image reference, and NormalizeContent applied to a message it has
\* normalized leaves the message as it is
C38_NormalizeThenConvert ==
  /\ []((Converted /\ convOut.normalized /\ BareBase64Image(convIn)) =>
          convOut.req.ImageURLs = <<convIn.Content>>)
  /\ [][ConvNormalizeAgain => convOut'.msg = convOut.msg]_vars

\* a bare base64 image was prefixed by the normalization, normalized a second
\* time and converted back to its original content
C38_Witness ==
  /\ Converted /\ convOut.normalized
  /\ BareBase64Image(convIn)
  /\ convOut.msg.Content = DataPngPrefix \o convIn.Content
  /\ NormalizeContent(NormalizeContent(convIn)) = convOut.msg
  /\ convOut.req.ImageURLs = <<convIn.Content>>

(***************************************************************************)
(* Properties of the backend clients                                       *)
(***************************************************************************)
\* C39: a backend whose enabled flag reads true when processMessage invokes
\* it has the client New built, so that no Chat is called on a missing
\* client, also when updateConfig overwrites the configuration while
\* messages are processed
C39_EnabledBackendHasClient ==
  /\ [][InvokeDify => difyAgent]_vars
  /\ [][InvokeCoze => cozeAgent]_vars
====
